---------------------------- MODULE Spec2Model ----------------------------
(***************************************************************************)
(* Model of the nRF24L01 driver (src/nRF24L01.py, class RadioDriver).      *)
(*                                                                         *)
(* The driver talks to the radio chip over SPI.  The chip is modelled by   *)
(* the state the driver can observe or change: the CONFIG register, the    *)
(* three STATUS interrupt flags, the 3-deep TX and RX FIFOs and whether a  *)
(* packet transmission is in progress.  The radio runs concurrently with   *)
(* the micro-controller, so the Chip* actions may happen between any two   *)
(* bus transactions of the asynchronous (polling) driver operations; each  *)
(* bus transaction (chip-select low, command, chip-select high) is one     *)
(* step.  The synchronous operations (check_msg_sent, any, readinto,       *)
(* power_on, power_off, configure) are one step each after the call.       *)
(***************************************************************************)
EXTENDS Integers, Sequences, FiniteSets

(* ------------------------------ bounds -------------------------------- *)
\* payload contents are drawn from 1..MaxPayload
MaxPayload == 2
\* the positive timeouts a caller passes are 1..MaxTimeout (milliseconds)
MaxTimeout == 1
\* the retry budgets a caller passes are -1 (unlimited) and 0..MaxRetries
MaxRetries == 1
\* the per-call event counters stop counting at MaxCount
MaxCount == 2

Payloads == 1 .. MaxPayload

\* period of the millisecond tick counter (utime.ticks_ms wraps around);
\* scaled down so that the wrap-around is exercised
TicksPeriod == 2 * (MaxTimeout + 2)

(* ------------------------ program constants --------------------------- *)
\* class ResponseStatus
SEND_FAIL == 0
MSG_RECV == 1
MSG_SENT_NO_RESP == 2
MSG_PENDING == 3
MSG_SENT == 4
TIMED_OUT == 5
FIFO_FULL == 6

\* depth of the chip's TX and RX FIFOs (the STATUS TX_FULL bit is set when
\* the TX FIFO holds this many payloads)
FifoDepth == 3

\* CONFIG register bits
PWR_UP_BIT == 1
PRIM_RX_BIT == 0
EN_CRC_BIT == 3
CRCO_BIT == 2

(* --------------------------- NRF240LConfig ---------------------------- *)
\* _PIPES: b"\xe1\xf0\xf0\xf0\xf0" and b"\xd2\xf0\xf0\xf0\xf0"
PIPE_0 == <<225, 240, 240, 240, 240>>
PIPE_1 == <<210, 240, 240, 240, 240>>

\* NRF240LConfig with the defaults of its constructor, as far as the
\* modelled registers depend on it (CHANNEL, DATA_RATE, RF_POWER and
\* DEFAULT_PL_SZ are at their defaults, which the setters accept)
DefaultConfig ==
    [TX_PIPE |-> PIPE_0, RX_PIPE |-> PIPE_0, RETRY_DELAY_US |-> 1000,
     NUM_RETRIES |-> 4, EN_DYNAMIC_PL |-> FALSE]

\* the configurations a caller may construct: the constructor checks
\* nothing
Pipes ==
    {PIPE_0, PIPE_1, <<225, 240>>, <<225, 240, 240>>, <<225, 240, 240, 240>>}
RetryDelays == {-250, -100, 0, 100, 250, 300, 1000, 3750, 4000, 4250}
Configs ==
    [TX_PIPE : Pipes, RX_PIPE : Pipes, RETRY_DELAY_US : RetryDelays,
     NUM_RETRIES : {4}, EN_DYNAMIC_PL : BOOLEAN]

(* --------------------------- bit arithmetic --------------------------- *)
Pow2(n) == 2 ^ n

\* (value & (1 << bit_no)) != 0
BitIsHigh(value, bit_no) == (value \div Pow2(bit_no)) % 2 = 1

\* value | (1 << bit_no)
BitOr(value, bit_no) ==
    IF BitIsHigh(value, bit_no) THEN value ELSE value + Pow2(bit_no)

\* value & ~(1 << bit_no)
BitClear(value, bit_no) ==
    IF BitIsHigh(value, bit_no) THEN value - Pow2(bit_no) ELSE value

\* a & b, a | b and a & ~b on non-negative integers, bit by bit
RECURSIVE BitwiseAnd(_, _)
BitwiseAnd(a, b) ==
    IF a = 0 \/ b = 0 THEN 0
    ELSE 2 * BitwiseAnd(a \div 2, b \div 2)
            + (IF a % 2 = 1 /\ b % 2 = 1 THEN 1 ELSE 0)

RECURSIVE BitwiseOr(_, _)
BitwiseOr(a, b) ==
    IF a = 0 THEN b
    ELSE IF b = 0 THEN a
    ELSE 2 * BitwiseOr(a \div 2, b \div 2)
            + (IF a % 2 = 1 \/ b % 2 = 1 THEN 1 ELSE 0)

RECURSIVE BitwiseAndNot(_, _)
BitwiseAndNot(a, b) ==
    IF a = 0 THEN 0
    ELSE 2 * BitwiseAndNot(a \div 2, b \div 2)
            + (IF a % 2 = 1 /\ b % 2 = 0 THEN 1 ELSE 0)

(* ------------------------------ state --------------------------------- *)
VARIABLES
    config,      \* RadioDriver.config, the NRF240LConfig given at construction
    is_master,   \* RadioDriver.is_master, fixed at construction
    on,          \* RadioDriver._on
    last_pl_sz,  \* RadioDriver._last_pl_sz
    ce,          \* chip-enable line (Pin value)
    csn,         \* chip-select line (Pin value)
    chip,        \* the radio chip: registers, flags, FIFOs, radio activity
    responsive,  \* the chip answers on the bus (FALSE: MISO reads 0xFF)
    now,         \* utime.ticks_ms() while a call with a timeout runs
    pc,          \* position of the driver task ("idle": no call in progress)
    op,          \* the operation in progress or the last one called
    res,         \* result of the last call
    in_buf,      \* contents of the caller's receive buffer (0: not written)
    loc,         \* arguments and locals of the call in progress
    obs,         \* flags polled in the current loop iteration
    g            \* per-call history: CE pulses, bus use, payload written

vars == <<config, is_master, on, last_pl_sz, ce, csn, chip, responsive, now,
          pc, op, res, in_buf, loc, obs, g>>

(* ------------------------- results of a call -------------------------- *)
NoResult == [kind |-> "none", val |-> 0]
Status(code) == [kind |-> "status", val |-> code]
\* a Python return of None, False or True
Void == [kind |-> "void", val |-> 0]
Bool(b) == [kind |-> "bool", val |-> IF b THEN 1 ELSE 0]
\* the call ended by raising OSError
Raised == [kind |-> "raised", val |-> 0]
\* the call ended by an AssertionError of a setter
AssertFailed == [kind |-> "assert", val |-> 0]
\* the awaiting task was cancelled at a yield point
Cancelled == [kind |-> "cancelled", val |-> 0]

NoLoc == [buf |-> 0, timeout |-> 0, retries |-> 0, budget |-> 0, t0 |-> 0,
          retry_first |-> FALSE]
NoObs == [max_rt |-> FALSE, tx_ds |-> FALSE, rx_dr |-> FALSE]
NoHist == [pulses |-> 0, events |-> 0, wrote |-> FALSE, bus |-> FALSE]

Inc(n) == IF n < MaxCount THEN n + 1 ELSE n

(* ------------------------------ the chip ------------------------------ *)
PwrUp(c) == BitIsHigh(c.config, PWR_UP_BIT)
PrimRx(c) == BitIsHigh(c.config, PRIM_RX_BIT)

\* A transmission starts when chip-enable is high on a powered-up primary
\* transmitter with a payload queued and MAX_RT clear ("if MAX_RT is
\* asserted it must be cleared to enable further communication").
CanTransmit(c) == PwrUp(c) /\ ~PrimRx(c) /\ c.tx # <<>> /\ ~c.max_rt

\* the chip after a driver step that left chip-enable at `level`
Radio(c, level) ==
    IF ~PwrUp(c) \/ PrimRx(c) THEN [c EXCEPT !.air = FALSE]
    ELSE [c EXCEPT !.air = c.air \/ (level = 1 /\ CanTransmit(c))]

\* the 10 us pulse ce(1); sleep_us(10); ce(0) seen from the chip
Pulsed(c) == Radio(c, 1)

\* the receiver is listening
Listening(c, level) == PwrUp(c) /\ PrimRx(c) /\ level = 1

(* ------------------- bus transactions of the driver ------------------- *)
\* A command reaches the chip only while it answers on the bus.
Bus(c) == IF responsive THEN c ELSE chip

\* an unresponsive chip reads as 0xFF: every bit is seen set
ReadMaxRt == ~responsive \/ chip.max_rt
ReadTxDs == ~responsive \/ chip.tx_ds
ReadRxDr == ~responsive \/ chip.rx_dr

\* a faulty variant of tx_fifo_full_flag: the wrong bit (TX_EMPTY) is tested
TxFullMut == ~responsive \/ chip.tx = <<>>
\* tx_fifo_full_flag: bit 0 of STATUS
tx_fifo_full_flag == ~responsive \/ Len(chip.tx) = FifoDepth

\* tx_fifo_empty: bit 4 of FIFO_STATUS
tx_fifo_empty == ~responsive \/ chip.tx = <<>>

\* get_rx_fifo_empty: bit 0 of FIFO_STATUS
get_rx_fifo_empty == ~responsive \/ chip.rx = <<>>

\* write_register(STATUS_REG, value): the chip clears the flags written as 1
WriteStatus(c, rx_dr, tx_ds, max_rt) ==
    [c EXCEPT !.rx_dr = c.rx_dr /\ ~rx_dr,
              !.tx_ds = c.tx_ds /\ ~tx_ds,
              !.max_rt = c.max_rt /\ ~max_rt]

\* a faulty variant of clear_status_flags: 0x10 (MAX_RT) is left out
ClearStatusMut(c) == WriteStatus(c, TRUE, TRUE, FALSE)
\* clear_status_flags: write STATUS | 0x10 | 0x20 | 0x40
clear_status_flags(c) == WriteStatus(c, TRUE, TRUE, TRUE)

\* get_clear_rx_irq(clear): the value written back is cur | 0x40, so every
\* flag that was read as set is written as 1 too
get_clear_rx_irq(c, clear) ==
    IF clear /\ c.rx_dr THEN WriteStatus(c, TRUE, c.tx_ds, c.max_rt) ELSE c

\* get_clear_tx_irq(clear): writes back cur | 0x20
get_clear_tx_irq(c, clear) ==
    IF clear /\ c.tx_ds THEN WriteStatus(c, c.rx_dr, TRUE, c.max_rt) ELSE c

\* get_clear_max_rt_irq(clear): writes back cur | 0x10
get_clear_max_rt_irq(c, clear) ==
    IF clear /\ c.max_rt THEN WriteStatus(c, c.rx_dr, c.tx_ds, TRUE) ELSE c

\* flush_tx_fifo: FLUSH_TX; nothing is left to transmit
flush_tx_fifo(c) == [c EXCEPT !.tx = <<>>, !.air = FALSE]

\* flush_rx_fifo: FLUSH_RX
flush_rx_fifo(c) == [c EXCEPT !.rx = <<>>]

\* W_TX_PAYLOAD / W_TX_PAYLOAD_NO_ACK / W_ACK_PAYLOAD: the payload enters
\* the TX FIFO; a full FIFO takes no more
FifoWrite(c, buf) ==
    IF Len(c.tx) < FifoDepth THEN [c EXCEPT !.tx = Append(c.tx, buf)] ELSE c

\* R_RX_PAYLOAD: "Payload is deleted from FIFO after it is read"
FifoRead(c) == IF c.rx = <<>> THEN c ELSE [c EXCEPT !.rx = Tail(c.rx)]

\* what R_RX_PAYLOAD can deliver into the buffer: the head payload; the
\* bytes read from an empty FIFO or a silent bus are arbitrary
Delivered(c) ==
    IF responsive /\ c.rx # <<>> THEN {Head(c.rx)} ELSE Payloads \cup {0}

\* a faulty variant of toggle_register_bit: the mask alone is written
\* instead of cur | mask
ToggleRegisterBitMut(c, bit_no, set_high) ==
    LET is_high == BitIsHigh(c.config, bit_no) IN
    IF ~is_high /\ set_high THEN [c EXCEPT !.config = Pow2(bit_no)]
    ELSE IF is_high /\ ~set_high
         THEN [c EXCEPT !.config = BitClear(c.config, bit_no)]
         ELSE c
\* toggle_register_bit on CONFIG: the register after the call
toggle_register_bit(c, bit_no, set_high) ==
    LET is_high == BitIsHigh(c.config, bit_no) IN
    IF ~is_high /\ set_high THEN [c EXCEPT !.config = BitOr(c.config, bit_no)]
    ELSE IF is_high /\ ~set_high
         THEN [c EXCEPT !.config = BitClear(c.config, bit_no)]
         ELSE c

\* toggle_register_bit: the value returned, the bit's state as read
ToggleIsHigh(c, bit_no) ==
    BitIsHigh(IF responsive THEN c.config ELSE 255, bit_no)

\* toggle_register_bit: the number of write_register calls it makes
ToggleWrites(c, bit_no, set_high) ==
    IF ToggleIsHigh(c, bit_no) # set_high THEN 1 ELSE 0

\* utime.ticks_diff(a, b): wrap-around safe difference
ticks_diff(a, b) ==
    ((a - b + (TicksPeriod \div 2)) % TicksPeriod) - (TicksPeriod \div 2)

(* --------------------------- construction ----------------------------- *)
\* check_device_responsive: the two prior states of PWR_UP differ
check_device_responsive(c) ==
    LET expect_true == ~responsive \/ PwrUp(c)
        c1 == Bus(toggle_register_bit(c, PWR_UP_BIT, FALSE))
        expect_false == ~responsive \/ PwrUp(c1)
    IN expect_true # expect_false

\* the chip after check_device_responsive
Probed(c) ==
    Bus(toggle_register_bit(Bus(toggle_register_bit(c, PWR_UP_BIT, FALSE)),
                            PWR_UP_BIT, TRUE))

\* the chip after a power-on reset: CONFIG = 0x08 (EN_CRC), PWR_UP = 0,
\* SETUP_AW = 3 (five bytes), SETUP_RETR = 0x03, both addresses E7E7E7E7E7
ResetChip ==
    [config |-> 8, rx_dr |-> FALSE, tx_ds |-> FALSE, max_rt |-> FALSE,
     tx |-> <<>>, rx |-> <<>>, air |-> FALSE,
     setup_aw |-> 3, setup_retr |-> 3,
     tx_addr |-> <<231, 231, 231, 231, 231>>,
     rx_addr_p0 |-> <<231, 231, 231, 231, 231>>]

\* RadioDriver.__init__ ends with power_on().  The chip was either just
\* reset (PWR_UP = 0) or left powered up by an earlier session.
Constructed ==
    /\ is_master \in BOOLEAN
    /\ responsive = TRUE
    /\ \E was_up \in BOOLEAN :
          LET c0 == [ResetChip EXCEPT
                        !.config = IF was_up THEN BitOr(8, PWR_UP_BIT) ELSE 8]
          IN /\ on = check_device_responsive(c0)
             /\ chip = Radio(Bus(toggle_register_bit(Probed(c0), PWR_UP_BIT,
                                                     TRUE)), 0)
    /\ last_pl_sz = 0
    /\ ce = 0
    /\ csn = 1
    /\ now = 0
    /\ pc = "idle"
    /\ op = "init"
    /\ res = NoResult
    /\ in_buf = 0
    /\ loc = NoLoc
    /\ obs = NoObs
    /\ g = NoHist

\* the driver constructed with the default configuration
Init == config = DefaultConfig /\ Constructed

(* ------------------------- shape of a step ---------------------------- *)
Fixed == UNCHANGED <<config, is_master, csn, responsive, op>>

\* a bus transaction was issued in this call
Used(h) == [h EXCEPT !.bus = TRUE]

\* the task goes on at position p, the tick counter reading t
ContAt(p, c, level, l, o, h, t) ==
    /\ pc' = p
    /\ chip' = Radio(c, level)
    /\ ce' = level
    /\ loc' = l
    /\ obs' = o
    /\ g' = h
    /\ now' = t
    /\ UNCHANGED <<on, last_pl_sz, res, in_buf>>
    /\ Fixed

\* the task goes on at position p
Cont(p, c, level, l, o, h) == ContAt(p, c, level, l, o, h, now)

\* the values utime.ticks_ms() can return when a timed wait starts
Ticks(timeout) == IF timeout > 0 THEN 0 .. TicksPeriod - 1 ELSE {0}

\* the locals once the timed wait is over
Waited(l) == [l EXCEPT !.t0 = 0]

\* the call returns r
Ret(r, c, level, h) ==
    /\ pc' = "idle"
    /\ res' = r
    /\ chip' = Radio(c, level)
    /\ ce' = level
    /\ loc' = NoLoc
    /\ obs' = NoObs
    /\ g' = h
    /\ now' = 0
    /\ UNCHANGED <<on, last_pl_sz, in_buf>>
    /\ Fixed

\* a call of operation name starts: the task is at position p
Enter(name, p, l) ==
    /\ pc = "idle"
    /\ op' = name
    /\ pc' = p
    /\ loc' = l
    /\ res' = NoResult
    /\ in_buf' = 0
    /\ obs' = NoObs
    /\ g' = NoHist
    /\ UNCHANGED <<config, is_master, on, last_pl_sz, ce, csn, chip,
                   responsive, now>>

\* "if not self.is_on: print("Device is powered down"); return r"
Refuse(r) ==
    /\ ~on
    /\ pc' = "idle"
    /\ res' = r
    /\ loc' = NoLoc
    /\ UNCHANGED <<on, last_pl_sz, ce, chip, in_buf, obs, g, now>>
    /\ Fixed

\* tx_write_payload_ack / tx_write_payload_no_ack (send = True): write the
\* payload, pulse chip-enable, then raise if the scratch byte is still 0xFF
TxWriteRaises ==
    /\ ~responsive
    /\ pc' = "idle"
    /\ res' = Raised
    /\ on' = FALSE
    /\ chip' = Radio(Pulsed(chip), 0)
    /\ ce' = 0
    /\ loc' = NoLoc
    /\ obs' = NoObs
    /\ g' = [Used(g) EXCEPT !.pulses = Inc(g.pulses)]
    /\ now' = 0
    /\ UNCHANGED <<last_pl_sz, in_buf>>
    /\ Fixed

\* the history after tx_write_payload_*: transaction, payload, pulse
Wrote(h) == [Used(h) EXCEPT !.wrote = TRUE, !.pulses = Inc(h.pulses)]

(* -------------------------- master_exchange --------------------------- *)
CallMasterExchange ==
    /\ is_master
    /\ \E buf \in Payloads :
          Enter("master_exchange", "mx_write", [NoLoc EXCEPT !.buf = buf])

\* lines 761-770
MxWrite ==
    /\ pc = "mx_write"
    /\ IF ~on THEN Refuse(Status(SEND_FAIL))
       ELSE IF responsive
       THEN /\ pc' = "mx_max_rt"
            /\ chip' = Radio(Pulsed(FifoWrite(chip, loc.buf)), 0)
            /\ ce' = 0
            /\ last_pl_sz' = 0
            /\ g' = Wrote(g)
            /\ UNCHANGED <<on, res, in_buf, loc, obs, now>>
            /\ Fixed
       ELSE TxWriteRaises

\* line 771: while not self.get_clear_max_rt_irq(False)
MxMaxRt ==
    /\ pc = "mx_max_rt"
    /\ Cont(IF ReadMaxRt THEN "mx_fail" ELSE "mx_tx_ds", chip, ce, loc,
            [NoObs EXCEPT !.max_rt = ReadMaxRt], Used(g))

\* line 772: if self.get_clear_tx_irq(False)
MxTxDs ==
    /\ pc = "mx_tx_ds"
    /\ Cont(IF ReadTxDs THEN "mx_rx" ELSE "mx_yield", chip, ce, loc,
            [obs EXCEPT !.tx_ds = ReadTxDs], Used(g))

\* line 773: if self.get_clear_rx_irq(False)
MxRxDr ==
    /\ pc = "mx_rx"
    /\ Cont(IF ReadRxDr THEN "mx_read" ELSE "mx_sent", chip, ce, loc,
            [obs EXCEPT !.rx_dr = ReadRxDr], Used(g))

\* read_rx_payload(buf): read the head payload, raise on the 0xFF sentinel
ReadPayload(p) ==
    /\ \E v \in Delivered(chip) : in_buf' = v
    /\ chip' = Radio(Bus(FifoRead(chip)), ce)
    /\ g' = Used(g)
    /\ IF responsive
       THEN /\ pc' = p
            /\ UNCHANGED <<on, res, loc, obs>>
       ELSE /\ pc' = "idle"
            /\ on' = FALSE
            /\ res' = Raised
            /\ loc' = NoLoc
            /\ obs' = NoObs
    /\ UNCHANGED <<last_pl_sz, ce, now>>
    /\ Fixed

\* line 776
MxRead ==
    /\ pc = "mx_read"
    /\ ReadPayload("mx_recv")

\* lines 777-778
MxRecv ==
    /\ pc = "mx_recv"
    /\ Ret(Status(MSG_RECV), Bus(clear_status_flags(chip)), ce, Used(g))

\* lines 779-780
MxSent ==
    /\ pc = "mx_sent"
    /\ Ret(Status(MSG_SENT_NO_RESP), Bus(clear_status_flags(chip)), ce,
           Used(g))

\* line 781: await uasyncio.sleep_ms(0)
MxYield ==
    /\ pc = "mx_yield"
    /\ Cont("mx_max_rt", chip, ce, loc, obs, g)

\* line 783
MxFail ==
    /\ pc = "mx_fail"
    /\ Cont("mx_flush", Bus(clear_status_flags(chip)), ce, loc, obs, Used(g))

\* lines 784-785
MxFlush ==
    /\ pc = "mx_flush"
    /\ Ret(Status(SEND_FAIL), Bus(flush_tx_fifo(chip)), ce, Used(g))

master_exchange ==
    \/ MxWrite \/ MxMaxRt \/ MxTxDs \/ MxRxDr \/ MxRead \/ MxRecv
    \/ MxSent \/ MxYield \/ MxFail \/ MxFlush

(* ---------------------------- master_send ----------------------------- *)
Timeouts == {-1, 0} \cup (1 .. MaxTimeout)
Budgets == -1 .. MaxRetries

CallMasterSend ==
    /\ is_master
    /\ \E buf \in Payloads, timeout \in Timeouts, retries \in Budgets :
          Enter("master_send", "ms_full",
                [NoLoc EXCEPT !.buf = buf, !.timeout = timeout,
                              !.retries = retries, !.budget = retries])

\* lines 827-836: if self.tx_fifo_full_flag(): ... t0 = utime.ticks_ms()
MsFull ==
    /\ pc = "ms_full"
    /\ IF ~on THEN Refuse(Status(SEND_FAIL))
       ELSE IF tx_fifo_full_flag
       THEN IF loc.timeout = 0
            THEN Cont("ms_nb", chip, ce, loc, obs, Used(g))
            ELSE \E t \in Ticks(loc.timeout) :
                    ContAt("ms_w_full", chip, ce, [loc EXCEPT !.t0 = t], obs,
                           Used(g), t)
       ELSE Cont("ms_d_empty", chip, ce, loc, obs, Used(g))

\* a faulty variant of MsNb: get_clear_max_rt_irq() with its default clear=True
MsNbMut ==
    /\ pc = "ms_nb"
    /\ Ret(Status(IF ReadMaxRt THEN SEND_FAIL ELSE FIFO_FULL),
           Bus(get_clear_max_rt_irq(chip, TRUE)), ce, Used(g))
\* lines 832-834
MsNb ==
    /\ pc = "ms_nb"
    /\ Ret(Status(IF ReadMaxRt THEN SEND_FAIL ELSE FIFO_FULL), chip, ce,
           Used(g))

\* line 837: while self.tx_fifo_full_flag()
MsWFull ==
    /\ pc = "ms_w_full"
    /\ IF tx_fifo_full_flag
       THEN Cont("ms_w_max_rt", chip, ce, loc, obs, Used(g))
       ELSE ContAt("ms_d_empty", chip, ce, Waited(loc), obs, Used(g), 0)

\* lines 838-841: if self.get_clear_max_rt_irq(): pulse chip-enable
MsWMaxRt ==
    /\ pc = "ms_w_max_rt"
    /\ IF ReadMaxRt
       THEN Cont("ms_w_still",
                 Pulsed(Bus(get_clear_max_rt_irq(chip, TRUE))), 0, loc,
                 obs, [Used(g) EXCEPT !.pulses = Inc(g.pulses)])
       ELSE Cont("ms_w_yield", chip, ce, loc, obs, Used(g))

\* a faulty variant of RetryExhausted: off by one
RetryExhaustedMut(retries) == retries <= 1
\* line 843: if not retries
RetryExhausted(retries) == retries = 0

\* line 845: if 0 < timeout < utime.ticks_diff(utime.ticks_ms(), t0)
TimedOut(timeout, t0) == 0 < timeout /\ timeout < ticks_diff(now, t0)

\* lines 842-848
MsWStill ==
    /\ pc = "ms_w_still"
    /\ IF tx_fifo_full_flag
       THEN LET h == [Used(g) EXCEPT !.events =
                         IF loc.budget >= 0 THEN g.events + 1 ELSE g.events]
            IN
            IF RetryExhausted(loc.retries)
            THEN Ret(Status(SEND_FAIL), chip, ce, h)
            ELSE IF TimedOut(loc.timeout, loc.t0)
                 THEN Ret(Status(TIMED_OUT), chip, ce, h)
                 ELSE Cont("ms_w_yield", chip, ce,
                           [loc EXCEPT !.retries =
                               IF loc.retries > 0 THEN loc.retries - 1
                               ELSE loc.retries],
                           obs, h)
       ELSE Cont("ms_w_yield", chip, ce, loc, obs, Used(g))

\* line 849: await uasyncio.sleep_ms(0)
MsWYield ==
    /\ pc = "ms_w_yield"
    /\ Cont("ms_w_full", chip, ce, loc, obs, g)

\* lines 850-851: while not self.tx_fifo_empty(): self.ce(1)
MsDEmpty ==
    /\ pc = "ms_d_empty"
    /\ IF tx_fifo_empty
       THEN Cont("ms_write", chip, ce, loc, obs, Used(g))
       ELSE Cont("ms_d_yield", chip, 1, loc, obs,
                 [Used(g) EXCEPT !.pulses = Inc(g.pulses)])

\* lines 852-855: await uasyncio.sleep_ms(0); self.ce(0);
\* if self.get_clear_max_rt_irq(): break
MsDYield ==
    /\ pc = "ms_d_yield"
    /\ Cont(IF ReadMaxRt THEN "ms_write" ELSE "ms_d_empty",
            Bus(get_clear_max_rt_irq(chip, TRUE)), 0, loc, obs, Used(g))

\* lines 856-857
MsWrite ==
    /\ pc = "ms_write"
    /\ IF responsive
       THEN Ret(Status(MSG_PENDING), Pulsed(FifoWrite(chip, loc.buf)), 0,
                Wrote(g))
       ELSE TxWriteRaises

master_send ==
    \/ MsFull \/ MsNb \/ MsWFull \/ MsWMaxRt \/ MsWStill \/ MsWYield
    \/ MsDEmpty \/ MsDYield \/ MsWrite

(* --------------------------- slave_exchange --------------------------- *)
\* a faulty variant of AckWriteRaises: the driver is not marked off
AckWriteRaisesMut ==
    /\ ~responsive
    /\ pc' = "idle"
    /\ res' = Raised
    /\ loc' = NoLoc
    /\ obs' = NoObs
    /\ g' = Used(g)
    /\ now' = 0
    /\ UNCHANGED <<on, last_pl_sz, in_buf, chip, ce>>
    /\ Fixed
\* rx_write_ack_payload: raises if the scratch byte is still 0xFF
AckWriteRaises ==
    /\ ~responsive
    /\ pc' = "idle"
    /\ res' = Raised
    /\ on' = FALSE
    /\ loc' = NoLoc
    /\ obs' = NoObs
    /\ g' = Used(g)
    /\ now' = 0
    /\ UNCHANGED <<last_pl_sz, in_buf, chip, ce>>
    /\ Fixed

CallSlaveExchange ==
    /\ ~is_master
    /\ \E buf \in Payloads :
          Enter("slave_exchange", "sx_write", [NoLoc EXCEPT !.buf = buf])

\* a faulty variant of SxWrite: polling starts without the ACK payload
\* having been written
SxWriteMut ==
    /\ pc = "sx_write"
    /\ IF ~on THEN Refuse(Status(SEND_FAIL))
       ELSE Cont("sx_rx", chip, ce, loc, obs, g)
\* lines 788-791
SxWrite ==
    /\ pc = "sx_write"
    /\ IF ~on THEN Refuse(Status(SEND_FAIL))
       ELSE IF responsive
       THEN Cont("sx_rx", FifoWrite(chip, loc.buf), ce, loc, obs,
                 [Used(g) EXCEPT !.wrote = TRUE])
       ELSE AckWriteRaises

\* line 792: while not self.get_clear_rx_irq(False)
SxRxDr ==
    /\ pc = "sx_rx"
    /\ Cont(IF ReadRxDr THEN "sx_read" ELSE "sx_yield", chip, ce, loc,
            [NoObs EXCEPT !.rx_dr = ReadRxDr], Used(g))

\* line 793
SxYield ==
    /\ pc = "sx_yield"
    /\ Cont("sx_rx", chip, ce, loc, obs, g)

\* line 794
SxRead ==
    /\ pc = "sx_read"
    /\ ReadPayload("sx_clear")

\* lines 797-798
SxClear ==
    /\ pc = "sx_clear"
    /\ Ret(Status(MSG_RECV), Bus(clear_status_flags(chip)), ce, Used(g))

slave_exchange == SxWrite \/ SxRxDr \/ SxYield \/ SxRead \/ SxClear

(* ----------------------------- slave_send ----------------------------- *)
CallSlaveSend ==
    /\ ~is_master
    /\ \E buf \in Payloads, timeout \in Timeouts :
          Enter("slave_send", "ss_full",
                [NoLoc EXCEPT !.buf = buf, !.timeout = timeout])

\* lines 807-818
SsFull ==
    /\ pc = "ss_full"
    /\ IF ~on THEN Refuse(Status(SEND_FAIL))
       ELSE IF tx_fifo_full_flag
       THEN IF loc.timeout = 0
            THEN Cont("ss_nb_yield", chip, ce, loc, obs, Used(g))
            ELSE IF loc.timeout < 0
                 THEN Cont("ss_w_full", chip, ce, loc, obs, Used(g))
                 ELSE \E t \in Ticks(loc.timeout) :
                         ContAt("ss_t_full", chip, ce,
                                [loc EXCEPT !.t0 = t], obs, Used(g), t)
       ELSE Cont("ss_write", chip, ce, loc, obs, Used(g))

\* lines 812-813
SsNbYield ==
    /\ pc = "ss_nb_yield"
    /\ Ret(Status(FIFO_FULL), chip, ce, g)

\* line 815: while self.tx_fifo_full_flag()
SsWFull ==
    /\ pc = "ss_w_full"
    /\ Cont(IF tx_fifo_full_flag THEN "ss_w_yield" ELSE "ss_write", chip, ce,
            loc, obs, Used(g))

\* line 816
SsWYield ==
    /\ pc = "ss_w_yield"
    /\ Cont("ss_w_full", chip, ce, loc, obs, g)

\* line 819: while self.tx_fifo_full_flag()
SsTFull ==
    /\ pc = "ss_t_full"
    /\ IF tx_fifo_full_flag
       THEN Cont("ss_t_yield", chip, ce, loc, obs, Used(g))
       ELSE ContAt("ss_write", chip, ce, Waited(loc), obs, Used(g), 0)

\* a faulty variant of SlaveTimedOut: >= for >
SlaveTimedOutMut(timeout, t0) == ticks_diff(now, t0) >= timeout
\* line 821: if utime.ticks_diff(utime.ticks_ms(), t0) > timeout
SlaveTimedOut(timeout, t0) == ticks_diff(now, t0) > timeout

\* lines 820-822
SsTYield ==
    /\ pc = "ss_t_yield"
    /\ IF SlaveTimedOut(loc.timeout, loc.t0)
       THEN Ret(Status(TIMED_OUT), chip, ce, g)
       ELSE Cont("ss_t_full", chip, ce, loc, obs, g)

\* lines 823-824
SsWrite ==
    /\ pc = "ss_write"
    /\ IF responsive
       THEN Ret(Status(MSG_PENDING), FifoWrite(chip, loc.buf), ce,
                [Used(g) EXCEPT !.wrote = TRUE])
       ELSE AckWriteRaises

slave_send ==
    \/ SsFull \/ SsNbYield \/ SsWFull \/ SsWYield \/ SsTFull \/ SsTYield
    \/ SsWrite

(* ---------------------------- clear_tx_buf ---------------------------- *)
\* clear_tx_buf does not look at is_on; callers use it on a powered-on
\* driver (the bus is closed by power_off)
CallClearTxBuf ==
    /\ on
    /\ \E retry_first \in BOOLEAN :
        Enter("clear_tx_buf", IF retry_first THEN "cb_retry" ELSE "cb_flush",
              [NoLoc EXCEPT !.retry_first = retry_first])

\* lines 881-882
CbRetry ==
    /\ pc = "cb_retry"
    /\ Cont("cb_yield", Bus(get_clear_max_rt_irq(chip, TRUE)), 1, loc, obs,
            [Used(g) EXCEPT !.pulses = Inc(g.pulses)])

\* lines 883-884: await uasyncio.sleep_ms(1); self.ce(0)
CbYield ==
    /\ pc = "cb_yield"
    /\ Cont("cb_flush", chip, 0, loc, obs, g)

\* line 885
CbFlush ==
    /\ pc = "cb_flush"
    /\ Cont("cb_max_rt", Bus(flush_tx_fifo(chip)), ce, loc, obs, Used(g))

\* line 886
CbMaxRt ==
    /\ pc = "cb_max_rt"
    /\ Cont("cb_tx_ds", Bus(get_clear_max_rt_irq(chip, TRUE)), ce, loc, obs,
            Used(g))

\* line 887
CbTxDs ==
    /\ pc = "cb_tx_ds"
    /\ Ret(Void, Bus(get_clear_tx_irq(chip, TRUE)), ce, Used(g))

clear_tx_buf == CbRetry \/ CbYield \/ CbFlush \/ CbMaxRt \/ CbTxDs

(* ---------------------- synchronous operations ------------------------ *)
\* These do not look at is_on; callers use them on a powered-on driver
\* (the bus is closed by power_off).
CallCheckMsgSent == on /\ Enter("check_msg_sent", "check_msg_sent", NoLoc)
CallAny == on /\ Enter("any", "any", NoLoc)
CallReadInto == on /\ Enter("readinto", "readinto", NoLoc)

\* a faulty variant of check_master_msg_sent: TX_DS is tested before MAX_RT
CheckMasterMut ==
    IF ReadTxDs THEN MSG_SENT
    ELSE IF ReadMaxRt THEN SEND_FAIL
    ELSE IF ~tx_fifo_empty THEN MSG_PENDING
    ELSE SEND_FAIL
\* check_master_msg_sent (lines 870-877): the code returned
check_master_msg_sent ==
    IF ReadMaxRt THEN SEND_FAIL
    ELSE IF ReadTxDs THEN MSG_SENT
    ELSE IF ~tx_fifo_empty THEN MSG_PENDING
    ELSE SEND_FAIL

\* check_slave_msg_sent (lines 865-868): the code returned
check_slave_msg_sent ==
    IF ReadTxDs \/ tx_fifo_empty THEN MSG_SENT ELSE MSG_PENDING

\* the chip after check_master_msg_sent: get_clear_tx_irq(True) is reached
\* only when MAX_RT was read clear
AfterCheckMaster(c) ==
    IF ReadMaxRt THEN c ELSE Bus(get_clear_tx_irq(c, TRUE))

\* the chip after check_slave_msg_sent
AfterCheckSlave(c) == Bus(get_clear_tx_irq(c, TRUE))

\* check_msg_sent (lines 889-890): no await, one step
CheckMsgSent ==
    /\ pc = "check_msg_sent"
    /\ IF is_master
       THEN Ret(Status(check_master_msg_sent), AfterCheckMaster(chip), ce,
                Used(g))
       ELSE Ret(Status(check_slave_msg_sent), AfterCheckSlave(chip), ce,
                Used(g))

\* a faulty variant of any: the RX FIFO is not looked at
AnyMut == ReadRxDr
\* any (lines 892-893): the value returned
any == ~get_rx_fifo_empty \/ ReadRxDr

Any ==
    /\ pc = "any"
    /\ Ret(Bool(any), chip, ce, Used(g))

\* the chip after readinto: read_rx_payload, get_clear_rx_irq(True)
ReadIntoChip(c) == Bus(get_clear_rx_irq(Bus(FifoRead(c)), TRUE))

\* readinto (lines 895-898)
ReadInto ==
    /\ pc = "readinto"
    /\ \E v \in Delivered(chip) : in_buf' = v
    /\ pc' = "idle"
    /\ res' = IF responsive THEN Status(MSG_RECV) ELSE Raised
    /\ on' = (on /\ responsive)
    /\ chip' = Radio(ReadIntoChip(chip), ce)
    /\ loc' = NoLoc
    /\ g' = Used(g)
    /\ UNCHANGED <<last_pl_sz, ce, obs, now>>
    /\ Fixed

(* ------------------------- device lifecycle --------------------------- *)
CallPowerOn == Enter("power_on", "power_on", NoLoc)
CallPowerOff == Enter("power_off", "power_off", NoLoc)
CallConfigureTx == is_master /\ Enter("configure_tx", "configure_tx", NoLoc)
CallConfigureRx == ~is_master /\ Enter("configure_rx", "configure_rx", NoLoc)
CallConfigure == Enter("configure", "configure", NoLoc)

\* int(a / b) for b > 0: true division, then truncation toward zero
TruncDiv(a, b) == IF a >= 0 THEN a \div b ELSE -((-a) \div b)

\* write_register(reg, address) on a five-byte address register: the
\* bytes are written LSByte first; bytes not written keep their value
WriteAddress(old, address) ==
    LET b(i) == IF i <= Len(address) THEN address[i] ELSE old[i]
    IN <<b(1), b(2), b(3), b(4), b(5)>>

\* set_auto_retry_delay: (reg & ~0xf0) | (delay_lv << 4)
set_auto_retry_delay(c, delay_lv) ==
    [c EXCEPT !.setup_retr =
                 BitwiseOr(BitwiseAndNot(c.setup_retr, 240), 16 * delay_lv)]

\* a faulty variant of set_auto_retry_count: the old count is not masked out
SetAutoRetryCountMut(c, retries) ==
    [c EXCEPT !.setup_retr = BitwiseOr(c.setup_retr, retries)]
\* set_auto_retry_count: cur = (reg & 0x0f) >> 0; (reg & ~cur) | retries
set_auto_retry_count(c, retries) ==
    LET cur == BitwiseAnd(c.setup_retr, 15)
    IN [c EXCEPT !.setup_retr =
                    BitwiseOr(BitwiseAndNot(c.setup_retr, cur), retries)]

\* the delay level _shockburst_config passes to set_auto_retry_delay
RetryDelayLevel == TruncDiv(config.RETRY_DELAY_US, 250)

\* The lifecycle operations as the commands they issue, in program order.
\* _shockburst_config (lines 677-710):
ShockburstCmds ==
    <<"clear_status_flags", "flush_tx_fifo", "flush_rx_fifo",
      "set_rf_power", "set_data_rate", "en_crc", "set_crc_scheme",
      "set_auto_retry_delay", "set_auto_retry_count", "set_channel",
      "set_address_width", "toggle_enable_rx_pipe", "set_rx_pipe_address",
      "toggle_auto_ack_for_pipe", "enable_payloads_with_ack">>
    \o (IF config.EN_DYNAMIC_PL
        THEN <<"enable_dynamic_pyload_length_for_pipe",
               "toggle_dynamic_payload_length_enabled">>
        ELSE <<"set_rx_payload_length">>)

\* configure_tx (lines 719-727)
ConfigureTxCmds ==
    <<"power_down">> \o ShockburstCmds
    \o <<"primary_tx", "set_tx_pipe_address", "power_up">>

\* configure_rx (lines 734-740); ce(1) follows
ConfigureRxCmds ==
    <<"power_down">> \o ShockburstCmds \o <<"primary_rx", "power_up">>

\* a faulty variant of PowerOffCmds: the chip is powered down last
PowerOffCmdsMut ==
    <<"ce_pulse", "flush_tx_fifo", "flush_rx_fifo", "clear_status_flags",
      "power_down">>
\* power_off (lines 141-147)
PowerOffCmds ==
    <<"power_down", "ce_pulse", "flush_tx_fifo", "flush_rx_fifo",
      "clear_status_flags">>

\* the assert at the head of a setter
Accepts(cmd) ==
    CASE cmd = "set_auto_retry_delay" -> RetryDelayLevel \in 0 .. 15
      [] cmd = "set_auto_retry_count" -> config.NUM_RETRIES \in 0 .. 15
      [] cmd = "set_address_width" -> Len(config.TX_PIPE) \in 3 .. 5
      [] cmd = "set_tx_pipe_address" -> Len(config.TX_PIPE) = 5
      [] OTHER -> TRUE

\* the chip after one command; the commands on registers that are not
\* modelled (RF_SETUP, RF_CH, EN_RXADDR, EN_AA, FEATURE, DYNPD, RX_PW_P0)
\* leave the modelled state as it is
Exec(cmd, c) ==
    CASE cmd = "power_down" -> toggle_register_bit(c, PWR_UP_BIT, FALSE)
      [] cmd = "power_up" -> toggle_register_bit(c, PWR_UP_BIT, TRUE)
      [] cmd = "primary_tx" -> toggle_register_bit(c, PRIM_RX_BIT, FALSE)
      [] cmd = "primary_rx" -> toggle_register_bit(c, PRIM_RX_BIT, TRUE)
      [] cmd = "ce_pulse" -> Pulsed(c)
      [] cmd = "clear_status_flags" -> clear_status_flags(c)
      [] cmd = "flush_tx_fifo" -> flush_tx_fifo(c)
      [] cmd = "flush_rx_fifo" -> flush_rx_fifo(c)
      [] cmd = "en_crc" -> toggle_register_bit(c, EN_CRC_BIT, TRUE)
      [] cmd = "set_crc_scheme" -> toggle_register_bit(c, CRCO_BIT, TRUE)
      [] cmd = "set_auto_retry_delay" ->
            set_auto_retry_delay(c, RetryDelayLevel)
      [] cmd = "set_auto_retry_count" ->
            set_auto_retry_count(c, config.NUM_RETRIES)
      [] cmd = "set_address_width" ->
            [c EXCEPT !.setup_aw = Len(config.TX_PIPE) - 2]
      [] cmd = "set_rx_pipe_address" ->
            [c EXCEPT !.rx_addr_p0 = WriteAddress(c.rx_addr_p0,
                                                  config.RX_PIPE)]
      [] cmd = "set_tx_pipe_address" ->
            [c EXCEPT !.tx_addr = WriteAddress(c.tx_addr, config.TX_PIPE)]
      [] OTHER -> c

\* the chip after each command of a sequence, up to the first command
\* whose assert fails (the AssertionError ends the operation there)
RECURSIVE Run(_, _)
Run(cmds, c) ==
    IF cmds = <<>> \/ ~Accepts(Head(cmds)) THEN <<>>
    ELSE LET c1 == Exec(Head(cmds), c) IN <<c1>> \o Run(Tail(cmds), c1)

\* every assert of the sequence passes
Completes(cmds) == \A i \in 1 .. Len(cmds) : Accepts(cmds[i])

\* the chip when the sequence ends or is abandoned
After(cmds, c) ==
    LET t == Run(cmds, c) IN IF t = <<>> THEN c ELSE t[Len(t)]

\* the chip after _shockburst_config
shockburst_config(c) == After(ShockburstCmds, c)

\* the chip after configure_tx on a powered-on driver
configure_tx(c) == After(ConfigureTxCmds, c)

\* the chip after configure_rx on a powered-on driver
configure_rx(c) == After(ConfigureRxCmds, c)

\* the chip after power_on on a driver that is off (lines 118-133)
power_on_chip(c) ==
    IF check_device_responsive(c)
    THEN Pulsed(Bus(toggle_register_bit(Probed(c), PWR_UP_BIT, TRUE)))
    ELSE Probed(c)

\* the chip after power_off on a driver that is on (lines 141-147)
power_off_chip(c) == After(PowerOffCmds, c)

\* the return of a lifecycle call, which may change on and last_pl_sz
\* and leaves chip-select high
Life(r, c, level, power, size) ==
    /\ pc' = "idle"
    /\ res' = r
    /\ chip' = Radio(c, level)
    /\ ce' = level
    /\ csn' = 1
    /\ on' = power
    /\ last_pl_sz' = size
    /\ loc' = NoLoc
    /\ g' = Used(g)
    /\ UNCHANGED <<config, is_master, responsive, now, op, in_buf, obs>>

\* "if self.is_on: return" / "if not self.is_on: return"
NoOp ==
    /\ pc' = "idle"
    /\ res' = Void
    /\ loc' = NoLoc
    /\ UNCHANGED <<on, last_pl_sz, ce, chip, in_buf, obs, g, now>>
    /\ Fixed

\* a faulty variant of PowerOn: is_on is not tested
PowerOnMut ==
    /\ pc = "power_on"
    /\ LET ok == check_device_responsive(chip) IN
       Life(Bool(ok), power_on_chip(chip), 0, ok,
            IF ok THEN 0 ELSE last_pl_sz)
\* power_on (lines 114-135)
PowerOn ==
    /\ pc = "power_on"
    /\ IF on THEN NoOp
       ELSE LET ok == check_device_responsive(chip) IN
            Life(Bool(ok), power_on_chip(chip), 0, ok,
                 IF ok THEN 0 ELSE last_pl_sz)

\* power_off (lines 137-152)
PowerOff ==
    /\ pc = "power_off"
    /\ IF ~on THEN NoOp
       ELSE Life(Void, Bus(power_off_chip(chip)), 0, FALSE, 0)

\* a faulty variant of ConfigureTx: is_on is not tested
ConfigureTxMut ==
    /\ pc = "configure_tx"
    /\ Ret(Void, Bus(configure_tx(chip)), ce, Used(g))
\* configure_tx (lines 712-727)
ConfigureTx ==
    /\ pc = "configure_tx"
    /\ IF ~on THEN Refuse(Bool(FALSE))
       ELSE Ret(IF Completes(ConfigureTxCmds) THEN Void ELSE AssertFailed,
                Bus(configure_tx(chip)), ce, Used(g))

\* configure_rx (lines 729-742)
ConfigureRx ==
    /\ pc = "configure_rx"
    /\ IF ~on THEN Refuse(Bool(FALSE))
       ELSE IF Completes(ConfigureRxCmds)
       THEN Ret(Void, Bus(configure_rx(chip)), 1, Used(g))
       ELSE Ret(AssertFailed, Bus(configure_rx(chip)), ce, Used(g))

\* configure (lines 744-750): power_on if needed, then configure by role
Configure ==
    /\ pc = "configure"
    /\ LET ok == on \/ check_device_responsive(chip)
           c1 == IF on THEN chip ELSE power_on_chip(chip)
           l1 == IF on THEN ce ELSE 0
           done == Completes(IF is_master THEN ConfigureTxCmds
                             ELSE ConfigureRxCmds)
       IN IF ok
          THEN Life(IF done THEN Void ELSE AssertFailed,
                    Bus(IF is_master THEN configure_tx(c1)
                        ELSE configure_rx(c1)),
                    IF is_master \/ ~done THEN l1 ELSE 1, TRUE,
                    IF on THEN last_pl_sz ELSE 0)
          ELSE Life(Void, c1, l1, FALSE, last_pl_sz)

lifecycle == PowerOn \/ PowerOff \/ ConfigureTx \/ ConfigureRx \/ Configure

(* ------------------------------ the radio ----------------------------- *)
\* the chip after a transmission ended: with chip-enable still high the
\* next queued payload is sent
Next1(c) == [c EXCEPT !.air = ce = 1 /\ CanTransmit(c)]

Env == UNCHANGED <<config, is_master, on, last_pl_sz, ce, csn, responsive,
                   now, pc, op, res, in_buf, loc, obs, g>>

\* the packet was acknowledged: TX_DS is set, the payload leaves the FIFO
ChipSent ==
    /\ chip.air
    /\ chip' = Next1([chip EXCEPT !.tx = Tail(chip.tx), !.tx_ds = TRUE])
    /\ Env

\* the acknowledgement carried a payload: TX_DS and RX_DR are set
ChipSentWithReply ==
    /\ chip.air
    /\ Len(chip.rx) < FifoDepth
    /\ \E p \in Payloads :
          chip' = Next1([chip EXCEPT !.tx = Tail(chip.tx), !.tx_ds = TRUE,
                                     !.rx = Append(chip.rx, p),
                                     !.rx_dr = TRUE])
    /\ Env

\* no acknowledgement after the last retransmission: MAX_RT is set and
\* the payload stays in the FIFO
ChipMaxRetries ==
    /\ chip.air
    /\ chip' = [chip EXCEPT !.max_rt = TRUE, !.air = FALSE]
    /\ Env

\* a listening receiver gets a packet: RX_DR is set
ChipReceive ==
    /\ Listening(chip, ce)
    /\ Len(chip.rx) < FifoDepth
    /\ \E p \in Payloads :
          chip' = [chip EXCEPT !.rx = Append(chip.rx, p), !.rx_dr = TRUE]
    /\ Env

\* a listening receiver has sent a queued ACK payload: TX_DS is set
ChipAckPayloadSent ==
    /\ Listening(chip, ce)
    /\ chip.tx # <<>>
    /\ chip' = [chip EXCEPT !.tx = Tail(chip.tx), !.tx_ds = TRUE]
    /\ Env

Radiolink ==
    \/ ChipSent \/ ChipSentWithReply \/ ChipMaxRetries \/ ChipReceive
    \/ ChipAckPayloadSent

(* --------------------------- time and tasks --------------------------- *)
TimedPcs == {"ms_w_full", "ms_w_max_rt", "ms_w_still", "ms_w_yield",
             "ss_t_full", "ss_t_yield"}

\* a millisecond passes while a call waits with a timeout (time that
\* passes later than one tick past the deadline changes nothing)
Tick ==
    /\ pc \in TimedPcs
    /\ loc.timeout > 0
    /\ ticks_diff(now, loc.t0) <= loc.timeout
    /\ now' = (now + 1) % TicksPeriod
    /\ UNCHANGED <<config, is_master, on, last_pl_sz, ce, csn, chip,
                   responsive, pc, op, res, in_buf, loc, obs, g>>

\* the positions at "await uasyncio.sleep_ms(...)"
YieldPcs == {"mx_yield", "ms_w_yield", "ms_d_yield", "sx_yield",
             "ss_nb_yield", "ss_w_yield", "ss_t_yield", "cb_yield"}

\* the awaiting task is cancelled at a yield point; nothing is rolled back
Cancel ==
    /\ pc \in YieldPcs
    /\ pc' = "idle"
    /\ res' = Cancelled
    /\ loc' = NoLoc
    /\ obs' = NoObs
    /\ now' = 0
    /\ UNCHANGED <<config, is_master, on, last_pl_sz, ce, csn, chip,
                   responsive, op, in_buf, g>>

Calls ==
    \/ CallMasterExchange \/ CallMasterSend \/ CallSlaveExchange
    \/ CallSlaveSend \/ CallClearTxBuf \/ CallCheckMsgSent \/ CallAny
    \/ CallReadInto \/ CallPowerOn \/ CallPowerOff \/ CallConfigureTx
    \/ CallConfigureRx \/ CallConfigure

Driver ==
    \/ master_exchange \/ master_send \/ slave_exchange \/ slave_send
    \/ clear_tx_buf \/ CheckMsgSent \/ Any \/ ReadInto \/ lifecycle

Next == Calls \/ Driver \/ Radiolink \/ Tick \/ Cancel

Spec == Init /\ [][Next]_vars

(* ------------------------------ bus faults ---------------------------- *)
\* The chip stops answering on the bus (supply or wiring): MISO idles
\* high, so every byte clocked in reads 0xFF and no command reaches the
\* chip.  The payload commands detect this by the scratch byte, preset to
\* 0xFF, still being 0xFF after the command byte was clocked out.
BusFault ==
    /\ responsive
    /\ responsive' = FALSE
    /\ UNCHANGED <<config, is_master, on, last_pl_sz, ce, csn, chip, now, pc,
                   op, res, in_buf, loc, obs, g>>

\* the chip answers again
BusRecover ==
    /\ ~responsive
    /\ responsive' = TRUE
    /\ UNCHANGED <<config, is_master, on, last_pl_sz, ce, csn, chip, now, pc,
                   op, res, in_buf, loc, obs, g>>

\* the operations that move payloads, power_on, which brings a driver
\* marked off back on, and configure_rx, which makes the responder listen
FaultCalls ==
    \/ CallMasterExchange \/ CallMasterSend \/ CallSlaveExchange
    \/ CallSlaveSend \/ CallReadInto \/ CallPowerOn \/ CallConfigureRx

FaultDriver ==
    \/ master_exchange \/ master_send \/ slave_exchange \/ slave_send
    \/ ReadInto \/ PowerOn \/ ConfigureRx

FaultNext == FaultCalls \/ FaultDriver \/ Radiolink \/ BusFault \/ BusRecover

\* the driver on a bus that can fail and recover at any moment
SpecFault == Init /\ [][FaultNext]_vars

(* ------------------------ fair specifications ------------------------- *)
\* an in-flight transmission ends: acknowledged or retries used up
ChipCompletes == ChipSent \/ ChipSentWithReply \/ ChipMaxRetries

\* An initiator that is on and calls master_send and master_exchange, none
\* of them cancelled.  The event loop resumes the task, the clock advances
\* and the radio finishes what it transmits; new calls are the
\* application's choice and are not forced.
InitInitiator == Init /\ is_master = TRUE /\ on = TRUE

InitiatorNext ==
    \/ CallMasterSend \/ CallMasterExchange \/ master_send
    \/ master_exchange \/ ChipCompletes \/ Tick

SpecInitiator ==
    /\ InitInitiator
    /\ [][InitiatorNext]_vars
    /\ WF_vars(master_send \/ master_exchange)
    /\ WF_vars(Tick)
    /\ WF_vars(ChipCompletes)

\* A responder with every operation a responder can call.  The event loop
\* resumes slave_send and the clock advances; calls, cancellation and the
\* radio are not forced.
InitResponder == Init /\ is_master = FALSE

ResponderCalls ==
    \/ CallSlaveExchange \/ CallSlaveSend \/ CallClearTxBuf
    \/ CallCheckMsgSent \/ CallAny \/ CallReadInto \/ CallPowerOn
    \/ CallPowerOff \/ CallConfigureRx \/ CallConfigure

ResponderDriver ==
    \/ slave_exchange \/ slave_send \/ clear_tx_buf \/ CheckMsgSent \/ Any
    \/ ReadInto \/ PowerOn \/ PowerOff \/ ConfigureRx \/ Configure

ResponderNext ==
    ResponderCalls \/ ResponderDriver \/ Radiolink \/ Tick \/ Cancel

SpecResponder ==
    /\ InitResponder
    /\ [][ResponderNext]_vars
    /\ WF_vars(slave_send)
    /\ WF_vars(Tick)

(* ============================== claims ================================ *)
\* a step of the driver task from position p (not the radio, not the clock)
StepFrom(p) == pc = p /\ pc' # p /\ res' # Cancelled

FlagsClear(c) == ~c.rx_dr /\ ~c.tx_ds /\ ~c.max_rt

(* ------------------------------- C1 ----------------------------------- *)
\* the outcome master_exchange derives from the flags it polled last
MxOutcome(o) ==
    IF o.max_rt THEN SEND_FAIL
    ELSE IF o.rx_dr THEN MSG_RECV
    ELSE MSG_SENT_NO_RESP

C1_Step ==
    \* the payload is written and chip-enable pulsed once
    /\ (StepFrom("mx_write") /\ on) =>
          /\ pc' = "mx_max_rt"
          /\ g'.wrote /\ g'.pulses = 1 /\ ce' = 0
          /\ Len(chip.tx) < FifoDepth => chip'.tx = Append(chip.tx, loc.buf)
    \* max-retries is polled first in every iteration and decides
    /\ (StepFrom("mx_max_rt") /\ chip.max_rt) => pc' = "mx_fail"
    /\ (StepFrom("mx_max_rt") /\ ~chip.max_rt) => pc' = "mx_tx_ds"
    /\ StepFrom("mx_tx_ds") =>
          pc' = IF chip.tx_ds THEN "mx_rx" ELSE "mx_yield"
    \* the payload read is the head of the RX FIFO
    /\ StepFrom("mx_read") =>
          /\ chip.rx # <<>>
          /\ in_buf' = Head(chip.rx)
    \* every return
    /\ (op = "master_exchange" /\ on /\ pc # "idle" /\ pc' = "idle"
        /\ res' # Cancelled) =>
          /\ res' = Status(MxOutcome(obs))
          /\ ~obs.max_rt => obs.tx_ds
          /\ FlagsClear(chip')
          /\ g'.wrote /\ g'.pulses = 1
          /\ obs.max_rt => chip'.tx = <<>>
          /\ ~obs.max_rt /\ obs.rx_dr => in_buf' = in_buf /\ in_buf \in Payloads
          /\ ce' = 0

\* C1: on a powered-on initiator master_exchange writes the payload, pulses
\* chip-enable once and returns SEND_FAIL if it observed MAX_RT (polled
\* before TX_DS in every iteration) with the TX FIFO flushed, MSG_RECV if it
\* observed TX_DS with RX_DR set, the buffer holding the head payload of
\* the RX FIFO, and MSG_SENT_NO_RESP if it observed TX_DS without RX_DR; on
\* every return the three status flags are clear.
C1_MasterExchangeOutcomes == [][C1_Step]_vars

\* a master_exchange that returned MSG_RECV with the reply in the buffer
C1_Witness ==
    /\ pc = "idle" /\ op = "master_exchange" /\ on
    /\ res = Status(MSG_RECV) /\ in_buf = MaxPayload
    /\ g.wrote /\ FlagsClear(chip)

(* ------------------------------- C2 ----------------------------------- *)
GuardedEntries == {"mx_write", "sx_write", "ms_full", "ss_full",
                   "configure_tx", "configure_rx"}

C2_Step ==
    \A p \in GuardedEntries :
        (StepFrom(p) /\ ~on) =>
            /\ pc' = "idle"
            /\ res' = IF p \in {"configure_tx", "configure_rx"}
                      THEN Bool(FALSE) ELSE Status(SEND_FAIL)
            /\ ~g'.bus
            /\ chip' = chip /\ ce' = ce /\ csn' = csn
            /\ on' = on /\ last_pl_sz' = last_pl_sz

\* C2: while the driver is powered off, master_exchange, slave_exchange,
\* master_send and slave_send return SEND_FAIL and configure_tx and
\* configure_rx return False, with no bus transaction and no change to the
\* chip, chip-select or chip-enable.
C2_PoweredOffRefuses == [][C2_Step]_vars

\* a master_send refused on a powered-off driver
C2_Witness ==
    /\ pc = "idle" /\ ~on /\ op = "master_send"
    /\ res = Status(SEND_FAIL) /\ ~g.bus

(* ------------------------------- C3 ----------------------------------- *)
C3_Step ==
    /\ (StepFrom("ms_full") /\ on /\ Len(chip.tx) = FifoDepth
        /\ loc.timeout = 0) =>
          /\ pc' = "ms_nb"
          /\ chip' = chip /\ ce' = ce
    /\ StepFrom("ms_nb") =>
          /\ pc' = "idle"
          /\ res' = Status(IF chip.max_rt THEN SEND_FAIL ELSE FIFO_FULL)
          /\ chip' = chip /\ ce' = ce
          /\ ~g'.wrote /\ g'.pulses = 0

\* C3: on a powered-on initiator with a full TX FIFO, master_send with
\* timeout 0 returns SEND_FAIL if MAX_RT is set and FIFO_FULL otherwise,
\* writes no payload, does not pulse chip-enable and leaves MAX_RT and the
\* rest of the chip unchanged.
C3_MasterSendNonBlocking == [][C3_Step]_vars

\* a non-blocking master_send that found MAX_RT set and left it set
C3_Witness ==
    /\ pc = "idle" /\ op = "master_send" /\ on
    /\ res = Status(SEND_FAIL) /\ g.bus /\ ~g.wrote /\ g.pulses = 0
    /\ Len(chip.tx) = FifoDepth /\ chip.max_rt

(* ------------------------------- C4 ----------------------------------- *)
\* the positions of master_send's wait for room in the TX FIFO
MsWaitPcs == {"ms_w_full", "ms_w_max_rt", "ms_w_still", "ms_w_yield"}

\* the wait ends: TIMED_OUT is returned, or the FIFO got room
C4_EventuallyLeavesWait ==
    (pc \in MsWaitPcs /\ loc.timeout > 0 /\ loc.budget < 0)
        ~> (pc \notin MsWaitPcs)

\* TIMED_OUT is never returned before the elapsed time exceeds the timeout
C4_NeverTimesOutEarly ==
    [][(op = "master_send" /\ pc # "idle" /\ pc' = "idle"
        /\ res' = Status(TIMED_OUT)) =>
           /\ loc.timeout > 0
           /\ ticks_diff(now, loc.t0) > loc.timeout]_vars

\* C4: on a powered-on initiator, a master_send with a positive timeout and
\* unlimited retries that waits on a full TX FIFO eventually stops waiting
\* (it returns TIMED_OUT unless the FIFO got room), whatever the MAX_RT
\* flag does meanwhile, and it never returns TIMED_OUT before the elapsed
\* time exceeds the timeout.
C4_MasterSendTimeout == C4_EventuallyLeavesWait /\ C4_NeverTimesOutEarly

\* a master_send waiting with a timeout on a full TX FIFO while the radio
\* is idle and MAX_RT is clear: no max-retries event will come
C4_Stuck ==
    /\ pc \in MsWaitPcs /\ loc.timeout > 0 /\ loc.budget < 0
    /\ Len(chip.tx) = FifoDepth /\ ~chip.max_rt /\ ~chip.air /\ ce = 0

\* C4, as a state that must not occur: the wait that no event will end
C4_NeverStuck == ~C4_Stuck

(* ------------------------------- C5 ----------------------------------- *)
C5_Step ==
    \* one pulse for each observed max-retries event, none otherwise
    /\ StepFrom("ms_w_max_rt") =>
          /\ g'.pulses = IF chip.max_rt THEN Inc(g.pulses) ELSE g.pulses
          /\ pc' = IF chip.max_rt THEN "ms_w_still" ELSE "ms_w_yield"
          /\ ~chip'.max_rt
          /\ ce' = IF chip.max_rt THEN 0 ELSE ce
    /\ \A p \in MsWaitPcs \ {"ms_w_max_rt"} :
          StepFrom(p) => g'.pulses = g.pulses /\ ce' = ce
    \* SEND_FAIL exactly at event N+1 after which the FIFO is still full
    /\ (StepFrom("ms_w_still") /\ loc.timeout < 0 /\ loc.budget >= 0) =>
          /\ g'.events =
                IF Len(chip.tx) = FifoDepth THEN g.events + 1 ELSE g.events
          /\ g'.events <= loc.budget + 1
          /\ (pc' = "idle" /\ res' = Status(SEND_FAIL)) <=>
                (Len(chip.tx) = FifoDepth /\ g'.events = loc.budget + 1)
          /\ pc' = "idle" => res' = Status(SEND_FAIL)
    \* unlimited budget: the wait loop never returns SEND_FAIL
    /\ (pc \in MsWaitPcs /\ pc' = "idle" /\ loc.budget < 0) =>
          res' # Status(SEND_FAIL)
    \* with no timeout the wait loop returns nothing else
    /\ (pc \in MsWaitPcs /\ pc' = "idle" /\ loc.timeout < 0
        /\ res' # Cancelled) =>
          (pc = "ms_w_still" /\ res' = Status(SEND_FAIL))

\* C5: while master_send waits (timeout < 0) on a full TX FIFO with
\* retries = N >= 0, it pulses chip-enable once for each max-retries event
\* it observes and returns SEND_FAIL exactly at event N+1 after which the
\* FIFO is still full; with retries < 0 the wait never returns SEND_FAIL.
C5_RetryBudget == [][C5_Step]_vars

\* the largest budget ran out: SEND_FAIL at event MaxRetries + 1
C5_Witness ==
    /\ pc = "idle" /\ op = "master_send" /\ on
    /\ res = Status(SEND_FAIL) /\ g.events = MaxRetries + 1
    /\ g.pulses >= 1 /\ ~g.wrote

(* ------------------------------- C6 ----------------------------------- *)
C6_Step ==
    /\ (op = "master_send" /\ pc # "idle" /\ pc' = "idle"
        /\ res' # Cancelled) =>
          /\ (res' = Status(MSG_PENDING)) <=> g'.wrote
          /\ (res' = Status(MSG_PENDING)) <=> (pc = "ms_write")
          /\ res' \in {Status(MSG_PENDING), Status(SEND_FAIL),
                       Status(FIFO_FULL), Status(TIMED_OUT)}
    \* the write happens with room in the FIFO and appends the payload
    /\ StepFrom("ms_write") =>
          /\ Len(chip.tx) < FifoDepth
          /\ chip'.tx = Append(chip.tx, loc.buf)
    \* no other step of master_send writes
    /\ (op = "master_send" /\ pc \notin {"idle", "ms_write"} /\ pc' # pc) =>
          chip'.tx = chip.tx
    /\ Len(chip'.tx) <= FifoDepth

\* C6: master_send returns MSG_PENDING if and only if it wrote the payload
\* to the TX FIFO; the payload is written only when the FIFO is not full,
\* so the TX FIFO never holds more than FifoDepth payloads.
C6_PendingIffWritten == [][C6_Step]_vars

\* a master_send that filled the last slot of the TX FIFO
C6_Witness ==
    /\ pc = "idle" /\ op = "master_send"
    /\ res = Status(MSG_PENDING) /\ g.wrote
    /\ Len(chip.tx) = FifoDepth /\ chip.tx[FifoDepth] = MaxPayload

(* ------------------------------- C7 ----------------------------------- *)
SsTimedPcs == {"ss_t_full", "ss_t_yield"}

C7_Step ==
    \* chip-enable is never touched
    /\ (op = "slave_send" /\ pc # "idle" /\ pc' # pc) => ce' = ce
    \* the FIFO-full policy
    /\ (StepFrom("ss_full") /\ on /\ Len(chip.tx) = FifoDepth) =>
          /\ pc' = IF loc.timeout = 0 THEN "ss_nb_yield"
                   ELSE IF loc.timeout < 0 THEN "ss_w_full" ELSE "ss_t_full"
          /\ chip' = chip
    /\ StepFrom("ss_nb_yield") =>
          /\ pc' = "idle" /\ res' = Status(FIFO_FULL)
          /\ chip' = chip /\ ~g'.wrote
    /\ StepFrom("ss_w_full") =>
          /\ pc' = IF Len(chip.tx) = FifoDepth THEN "ss_w_yield"
                   ELSE "ss_write"
          /\ chip' = chip
    /\ StepFrom("ss_w_yield") => pc' = "ss_w_full" /\ chip' = chip
    \* TIMED_OUT only after the timeout has elapsed
    /\ (op = "slave_send" /\ pc # "idle" /\ pc' = "idle"
        /\ res' = Status(TIMED_OUT)) =>
          /\ loc.timeout > 0
          /\ ticks_diff(now, loc.t0) > loc.timeout
          /\ chip' = chip /\ ~g'.wrote
    \* MSG_PENDING only after queuing buf, nothing queued otherwise
    /\ StepFrom("ss_write") =>
          /\ Len(chip.tx) < FifoDepth
          /\ chip'.tx = Append(chip.tx, loc.buf)
          /\ pc' = "idle" /\ res' = Status(MSG_PENDING)
    /\ (op = "slave_send" /\ pc \notin {"idle", "ss_write"} /\ pc' # pc) =>
          /\ chip'.tx = chip.tx
          /\ res' # Status(MSG_PENDING)

\* C7: slave_send never changes chip-enable; with the TX FIFO full,
\* timeout 0 returns FIFO_FULL without queuing, timeout < 0 waits until the
\* FIFO is not full, timeout > 0 returns TIMED_OUT only after the timeout
\* has elapsed and eventually stops waiting; MSG_PENDING is returned only
\* after buf was queued, and nothing is queued on any other result.
C7_SlaveSendPolicy ==
    /\ [][C7_Step]_vars
    /\ (pc \in SsTimedPcs) ~> (pc \notin SsTimedPcs)

\* a slave_send that timed out on a full TX FIFO, chip-enable still high
C7_Witness ==
    /\ pc = "idle" /\ op = "slave_send" /\ on /\ ~is_master
    /\ res = Status(TIMED_OUT) /\ ~g.wrote
    /\ Len(chip.tx) = FifoDepth /\ ce = 1

(* ------------------------------- C8 ----------------------------------- *)
\* the decision table, from the chip's flags
MasterTable(max_rt, tx_ds, tx_empty) ==
    IF max_rt THEN SEND_FAIL
    ELSE IF tx_ds THEN MSG_SENT
    ELSE IF ~tx_empty THEN MSG_PENDING
    ELSE SEND_FAIL

SlaveTable(tx_ds, tx_empty) ==
    IF tx_ds \/ tx_empty THEN MSG_SENT ELSE MSG_PENDING

\* C8: check_msg_sent returns in one step, with the initiator's table
\* (MAX_RT first, then TX_DS, then TX FIFO non-empty) or the responder's
\* table (TX_DS or TX FIFO empty) applied to the chip's flags.
C8_CheckMsgSentTable ==
    [][StepFrom("check_msg_sent") =>
          /\ pc' = "idle"
          /\ res' = Status(IF is_master
                           THEN MasterTable(chip.max_rt, chip.tx_ds,
                                            chip.tx = <<>>)
                           ELSE SlaveTable(chip.tx_ds, chip.tx = <<>>))]_vars

\* the priority case: MAX_RT and TX_DS both set on an initiator
C8_Witness ==
    /\ pc = "idle" /\ op = "check_msg_sent" /\ is_master
    /\ res = Status(SEND_FAIL) /\ chip.max_rt /\ chip.tx_ds

(* ------------------------------- C9 ----------------------------------- *)
C9_Step ==
    /\ StepFrom("any") =>
          /\ pc' = "idle"
          /\ res' = Bool(chip.rx # <<>> \/ chip.rx_dr)
          /\ chip' = chip /\ ce' = ce /\ csn' = csn
    /\ StepFrom("readinto") =>
          /\ pc' = "idle"
          /\ res' = Status(MSG_RECV)
          /\ ~chip'.rx_dr
          /\ chip.rx # <<>> =>
                /\ chip'.rx = Tail(chip.rx)
                /\ in_buf' = Head(chip.rx)
          \* one payload queued: any() answers false afterwards
          /\ Len(chip.rx) = 1 => (chip'.rx = <<>> /\ ~chip'.rx_dr)
          /\ chip'.tx = chip.tx /\ ce' = ce

\* C9: any() is true exactly when the RX FIFO is non-empty or RX_DR is set
\* and changes nothing; readinto takes the head payload out of the RX FIFO,
\* clears RX_DR and returns MSG_RECV, so with one payload received and no
\* new arrival any() is true before readinto and false after it.
C9_AnyReadInto == [][C9_Step]_vars

\* any() answered true for a queued payload whose RX_DR was already cleared
C9_Witness ==
    /\ pc = "idle" /\ op = "any" /\ res = Bool(TRUE)
    /\ chip.rx # <<>> /\ ~chip.rx_dr

(* ------------------------------- C10 ---------------------------------- *)
CbPcs == {"cb_retry", "cb_yield", "cb_flush", "cb_max_rt", "cb_tx_ds"}

C10_FlushAndPulse ==
    /\ StepFrom("cb_tx_ds") =>
          /\ pc' = "idle" /\ res' = Void
          /\ chip'.tx = <<>> /\ ~chip'.max_rt /\ ~chip'.tx_ds
          /\ g'.pulses = IF loc.retry_first THEN 1 ELSE 0
    /\ StepFrom("cb_retry") =>
          ce' = 1 /\ g'.pulses = 1 /\ chip'.tx = chip.tx
    /\ \A p \in CbPcs \ {"cb_retry"} :
          StepFrom(p) => ce' \in {ce, 0} /\ g'.pulses = g.pulses
    /\ (StepFrom("cb_flush") /\ ~loc.retry_first) => g.pulses = 0

C10_CeLowOnReturn == (StepFrom("cb_tx_ds") /\ is_master) => ce' = 0

\* C10: clear_tx_buf returns with the TX FIFO empty, MAX_RT and TX_DS clear
\* and chip-enable low on an initiator; with retry_first false it never
\* raises chip-enable, with retry_first true it raises it once, before the
\* flush.
C10_ClearTxBuf == [][C10_FlushAndPulse /\ C10_CeLowOnReturn]_vars

\* C10 without the clause on chip-enable being low on return
C10_ExceptCeLow == [][C10_FlushAndPulse]_vars


(* ------------------------- toggle_register_bit ------------------------ *)
\* A caller calls toggle_register_bit(CONFIG_REG, bit_no, set_high) twice
\* in a row with the same arguments, through one of the CONFIG setters
\* (toggle_power_up, toggle_primary_rx, set_crc_scheme, en_crc,
\* enable_max_retry_irq, enable_tx_irq, enable_rx_irq: bits 0 to 6).
CallToggle ==
    \E bit_no \in 0 .. 6, set_high \in BOOLEAN :
        Enter("toggle_register_bit", "toggle_1",
              [bit_no |-> bit_no, set_high |-> set_high,
               before |-> chip.config, first |-> FALSE, second |-> FALSE,
               writes |-> 0])

\* one call: read the register, write it if the bit must change, return
\* the state read
Toggle ==
    /\ pc \in {"toggle_1", "toggle_2"}
    /\ LET is_high == ToggleIsHigh(chip, loc.bit_no)
           n == ToggleWrites(chip, loc.bit_no, loc.set_high)
           c1 == Bus(toggle_register_bit(chip, loc.bit_no, loc.set_high))
       IN IF pc = "toggle_1"
          THEN Cont("toggle_2", c1, ce,
                    [loc EXCEPT !.first = is_high, !.writes = @ + n],
                    obs, Used(g))
          ELSE Cont("toggle_done", c1, ce,
                    [loc EXCEPT !.second = is_high, !.writes = @ + n],
                    obs, Used(g))

\* the caller has the second call's result
ToggleDone ==
    /\ pc = "toggle_done"
    /\ Ret(Bool(loc.second), chip, ce, g)

ToggleNext == CallToggle \/ Toggle \/ ToggleDone

\* the CONFIG register under every sequence of double toggles
SpecToggle == Init /\ [][ToggleNext]_vars

(* --------------------------- configuration --------------------------- *)
\* the driver constructed with any configuration the constructor takes
InitSetup == config \in Configs /\ Constructed

SetupNext ==
    \/ CallPowerOn \/ CallPowerOff \/ CallConfigureTx \/ CallConfigureRx
    \/ CallConfigure \/ lifecycle

\* the lifecycle operations under every configuration
SpecSetup == InitSetup /\ [][SetupNext]_vars

(* ------------------------------- C11 ---------------------------------- *)
\* the positions of the payload transactions: W_TX_PAYLOAD, W_ACK_PAYLOAD
\* and R_RX_PAYLOAD
PayloadPcs == {"mx_write", "ms_write", "sx_write", "ss_write", "mx_read",
               "sx_read", "readinto"}

SendEntries == {"mx_write", "sx_write", "ms_full", "ss_full"}

C11_Step ==
    \* the transaction raises exactly when the scratch byte is still 0xFF
    /\ \A p \in PayloadPcs :
          (StepFrom(p) /\ on) =>
              IF responsive
              THEN res' # Raised /\ on'
              ELSE pc' = "idle" /\ res' = Raised /\ ~on'
    \* while marked off the four operations return SEND_FAIL
    /\ \A p \in SendEntries :
          (StepFrom(p) /\ ~on) => res' = Status(SEND_FAIL) /\ ~on'
    \* only a power_on whose probe succeeds marks the driver on again
    /\ (~on /\ on') =>
          /\ pc \in {"power_on", "configure"}
          /\ check_device_responsive(chip)
          /\ pc = "power_on" => res' = Bool(TRUE)

\* C11: a payload transaction (R_RX_PAYLOAD, W_TX_PAYLOAD, W_ACK_PAYLOAD)
\* that ends with the scratch byte still 0xFF raises instead of returning a
\* result code and marks the driver off at that step; from then on
\* master_exchange, slave_exchange, master_send and slave_send return
\* SEND_FAIL, and the driver is marked on again only by a power_on whose
\* probe succeeds.
C11_SentinelRaises == [][C11_Step]_vars

\* a master_exchange whose payload was written and whose reply could not
\* be read: it raised and left the driver marked off
C11_Witness ==
    /\ pc = "idle" /\ op = "master_exchange" /\ res = Raised /\ ~on
    /\ g.wrote /\ ~responsive

(* ------------------------------- C12 ---------------------------------- *)
\* the CONFIG register changes state across the two toggles of
\* check_device_responsive
RegisterChanges(c) ==
    LET c1 == Bus(toggle_register_bit(c, PWR_UP_BIT, FALSE))
        c2 == Bus(toggle_register_bit(c1, PWR_UP_BIT, TRUE))
    IN c1.config # c.config \/ c2.config # c1.config

\* C12: check_device_responsive (whose result power_on returns on a driver
\* that is off) is false when the CONFIG register never changes state
\* across the two toggles and true whenever it does change state, for
\* every initial value of the power-up bit.
C12_ProbeDetectsChange ==
    [][(StepFrom("power_on") /\ ~on) =>
          res' = Bool(RegisterChanges(chip))]_vars

\* the half that holds: a register that never changes state is reported
C12_StuckReportsFalse ==
    [][(StepFrom("power_on") /\ ~on /\ ~RegisterChanges(chip)) =>
          res' = Bool(FALSE)]_vars

\* a probe that failed on a chip that answers: the power-up bit was clear
C12_ProbeFailedOnLiveChip ==
    /\ pc = "idle" /\ op = "power_on" /\ res = Bool(FALSE)
    /\ responsive /\ ~on /\ PwrUp(chip)

(* ------------------------------- C13 ---------------------------------- *)
C13_Step ==
    StepFrom("power_on") =>
        IF on
        THEN /\ res' = Void /\ on'
             /\ ~g'.bus
             /\ chip' = chip /\ ce' = ce /\ csn' = csn
             /\ last_pl_sz' = last_pl_sz
        ELSE IF check_device_responsive(chip)
        THEN /\ res' = Bool(TRUE) /\ on'
             /\ PwrUp(chip') /\ ce' = 0 /\ csn' = 1
             /\ last_pl_sz' = 0
        ELSE res' = Bool(FALSE) /\ ~on'

\* C13: power_on on a driver that is on does nothing (no bus transaction,
\* chip, chip-enable and chip-select unchanged).  On a driver that is off,
\* a failed probe leaves the driver off and power_on returns False; a
\* successful probe makes power_on return True with the driver on, the
\* power-up bit set, chip-enable low, chip-select high and _last_pl_sz 0.
C13_PowerOn == [][C13_Step]_vars

\* a power_on that brought the driver back on after a power_off and a
\* failed attempt
C13_Witness ==
    /\ pc = "idle" /\ op = "power_on" /\ res = Bool(TRUE) /\ on
    /\ PwrUp(chip) /\ ce = 0 /\ csn = 1 /\ g.bus

(* ------------------------------- C14 ---------------------------------- *)
C14_Step ==
    StepFrom("power_off") =>
        IF ~on
        THEN /\ res' = Void /\ ~on'
             /\ ~g'.bus
             /\ chip' = chip /\ ce' = ce /\ csn' = csn
        ELSE LET t == Run(PowerOffCmds, chip) IN
             /\ Len(t) = 5
             \* the power-up bit is cleared first, FIFOs and flags untouched
             /\ ~PwrUp(t[1])
             /\ t[1].tx = chip.tx /\ t[1].rx = chip.rx
             /\ t[1].rx_dr = chip.rx_dr /\ t[1].tx_ds = chip.tx_ds
             /\ t[1].max_rt = chip.max_rt
             \* the pulse reaches a powered-down chip and starts nothing
             /\ t[2] = [t[1] EXCEPT !.air = FALSE]
             \* then the TX FIFO, the RX FIFO, and last the flags
             /\ t[3] = [t[2] EXCEPT !.tx = <<>>]
             /\ t[4] = [t[3] EXCEPT !.rx = <<>>]
             /\ t[5] = [t[4] EXCEPT !.rx_dr = FALSE, !.tx_ds = FALSE,
                                    !.max_rt = FALSE]
             /\ chip' = t[5]
             \* the state on return
             /\ res' = Void /\ ~on'
             /\ ~PwrUp(chip') /\ chip'.tx = <<>> /\ chip'.rx = <<>>
             /\ FlagsClear(chip') /\ ~chip'.air
             /\ ce' = 0 /\ csn' = 1

\* C14: power_off on a driver that is off does nothing.  On a driver that
\* is on it clears the power-up bit first, then pulses chip-enable, flushes
\* the TX and the RX FIFO and clears the status flags, and returns with the
\* power-up bit clear, both FIFOs empty, the three status flags clear,
\* chip-enable low, chip-select high and the driver marked off, whatever
\* the state it was called in.
C14_PowerOff == [][C14_Step]_vars

\* a configured responder, powered off: the role bit is still PRX, the
\* chip is powered down and empty
C14_Witness ==
    /\ pc = "idle" /\ op = "power_off" /\ res = Void /\ ~on /\ g.bus
    /\ ~is_master /\ PrimRx(chip) /\ ~PwrUp(chip)
    /\ chip.tx = <<>> /\ chip.rx = <<>> /\ FlagsClear(chip) /\ ce = 0

(* ------------------------------- C15 ---------------------------------- *)
\* the commands of the configure operation at position p
ConfigureCmds(p) ==
    IF p = "configure_tx" THEN ConfigureTxCmds ELSE ConfigureRxCmds

\* the power-up bit is cleared first, every later command finds it clear,
\* and it is set again by the last command only
StandbyOrder(cmds, c) ==
    LET t == Run(cmds, c) IN
    /\ cmds[1] = "power_down"
    /\ \A i \in 2 .. Len(cmds) - 1 : cmds[i] \notin {"power_down", "power_up"}
    /\ cmds[Len(cmds)] = "power_up"
    /\ \A i \in 1 .. Len(t) : i < Len(cmds) => ~PwrUp(t[i])

C15_OrderStep ==
    \A p \in {"configure_tx", "configure_rx"} :
        (StepFrom(p) /\ on) => StandbyOrder(ConfigureCmds(p), chip)

C15_EndStep ==
    \A p \in {"configure_tx", "configure_rx"} :
        (StepFrom(p) /\ on) =>
            /\ PwrUp(chip')
            /\ PrimRx(chip') = (p = "configure_rx")

\* C15: in configure_tx and configure_rx on a powered-on driver the
\* power-up bit is cleared first, every register write of
\* _shockburst_config and the role-bit and TX-address writes happen while
\* the power-up bit is 0, the power-up bit is set again only after all of
\* them, and the operation ends with the power-up bit set and the
\* primary-RX bit equal to the role.
C15_StandbyBeforeReconfiguration == [][C15_OrderStep /\ C15_EndStep]_vars

\* the half that holds under every configuration: the order of the writes
C15_StandbyOrder == [][C15_OrderStep]_vars

\* a configure_tx that ended powered down on a driver still marked on
C15_EndedInStandby ==
    /\ pc = "idle" /\ op = "configure_tx" /\ res = AssertFailed
    /\ on /\ ~PwrUp(chip) /\ config.RETRY_DELAY_US = 4000
    /\ config.TX_PIPE = PIPE_0 /\ config.RX_PIPE = PIPE_0

(* ------------------------------- C16 ---------------------------------- *)
\* C16: after configure_tx completes, the TX_ADDR register equals the
\* RX_ADDR_P0 register, for every configuration whose TX and RX pipe-0
\* addresses have the same length.
C16_TxAddrEqualsRxAddrP0 ==
    [][(/\ StepFrom("configure_tx") /\ on
        /\ res' = Void
        /\ Len(config.TX_PIPE) = Len(config.RX_PIPE)) =>
          chip'.tx_addr = chip'.rx_addr_p0]_vars

\* a completed configure_tx that left the two registers different
C16_AddressesDiffer ==
    /\ pc = "idle" /\ op = "configure_tx" /\ res = Void /\ on
    /\ chip.tx_addr = PIPE_0 /\ chip.rx_addr_p0 = PIPE_1

(* ------------------------------- C17 ---------------------------------- *)
C17_Step ==
    \* configure_rx ends with chip-enable high
    /\ (StepFrom("configure_rx") /\ on /\ ~is_master) => ce' = 1
    \* and no step of a responder operation other than power_off lowers it
    /\ (~is_master /\ on /\ Listening(chip, ce) /\ pc # "power_off") =>
          ce' = 1

\* C17: after configure_rx completes on a responder chip-enable is high,
\* and it stays high across slave_exchange, slave_send, check_msg_sent,
\* any, readinto and clear_tx_buf until power_off is called.
C17_ListeningUntilPowerOff == [][C17_Step]_vars

\* a configured responder, still on, that clear_tx_buf left with
\* chip-enable low: it no longer listens
C17_StoppedListening ==
    /\ pc = "idle" /\ op = "clear_tx_buf" /\ res = Void
    /\ ~is_master /\ on /\ PwrUp(chip) /\ PrimRx(chip) /\ ce = 0

(* ------------------------------- C18 ---------------------------------- *)
C18_Step ==
    \* the ACK payload is written before the first poll
    /\ (StepFrom("sx_write") /\ on) =>
          /\ pc' = "sx_rx"
          /\ g'.wrote
          /\ Len(chip.tx) < FifoDepth => chip'.tx = Append(chip.tx, loc.buf)
    \* the loop is left only when RX_DR is read set
    /\ StepFrom("sx_rx") =>
          /\ g.wrote
          /\ pc' = IF chip.rx_dr THEN "sx_read" ELSE "sx_yield"
    /\ StepFrom("sx_yield") => pc' = "sx_rx"
    \* the payload read is the head of the RX FIFO; the flags are still
    \* as they were
    /\ StepFrom("sx_read") =>
          /\ obs.rx_dr
          /\ chip.rx # <<>>
          /\ in_buf' = Head(chip.rx)
          /\ chip'.rx = Tail(chip.rx)
          /\ chip'.rx_dr = chip.rx_dr /\ chip'.tx_ds = chip.tx_ds
          /\ chip'.max_rt = chip.max_rt
          /\ pc' = "sx_clear"
    \* the flags are cleared after the read, and the call returns
    /\ StepFrom("sx_clear") =>
          /\ pc' = "idle"
          /\ in_buf' = in_buf /\ in_buf \in Payloads
          /\ FlagsClear(chip')
    \* every return
    /\ (op = "slave_exchange" /\ pc # "idle" /\ pc' = "idle"
        /\ res' # Cancelled) =>
          /\ res' = Status(IF on THEN MSG_RECV ELSE SEND_FAIL)
          /\ on => (pc = "sx_clear" /\ obs.rx_dr /\ g'.wrote)

\* C18: on a powered-on responder slave_exchange writes `out` as an ACK
\* payload before it starts polling, leaves the polling loop only when it
\* has read RX_DR set, reads the head payload of the RX FIFO into `in`
\* before it clears the status flags, and returns MSG_RECV with the three
\* flags clear; MSG_RECV and SEND_FAIL (powered off) are its only result
\* codes.
C18_SlaveExchange == [][C18_Step]_vars

\* a slave_exchange that returned the payload received
C18_Witness ==
    /\ pc = "idle" /\ op = "slave_exchange" /\ ~is_master /\ on
    /\ res = Status(MSG_RECV) /\ in_buf = MaxPayload
    /\ g.wrote /\ FlagsClear(chip)

(* ------------------------------- C19 ---------------------------------- *)
\* the bit's state before the first of the two calls
C19_WasHigh == BitIsHigh(loc.before, loc.bit_no)

\* C19, as stated: for every register value, bit and target state, two
\* calls of toggle_register_bit in a row with the same target issue exactly
\* one register write in total, the second call returns the first call's
\* new state, every call returns the bit's prior state, and no other bit
\* changes.
C19_ExactlyOneWrite ==
    pc = "toggle_done" =>
        /\ loc.writes = 1
        /\ loc.first = C19_WasHigh
        /\ loc.second = loc.set_high
        /\ chip.config = IF loc.set_high THEN BitOr(loc.before, loc.bit_no)
                         ELSE BitClear(loc.before, loc.bit_no)

\* C19, amended: the two calls issue one write in total when the bit was
\* not in the target state and none when it already was; the first call
\* returns the bit's prior state, the second returns the target state (the
\* state the first call left), and only the addressed bit changes.
C19_AtMostOneWrite ==
    pc = "toggle_done" =>
        /\ loc.writes = IF C19_WasHigh = loc.set_high THEN 0 ELSE 1
        /\ loc.first = C19_WasHigh
        /\ loc.second = loc.set_high
        /\ chip.config = IF loc.set_high THEN BitOr(loc.before, loc.bit_no)
                         ELSE BitClear(loc.before, loc.bit_no)

\* two calls that set a bit that was clear in a register with other bits
\* set: one write, prior states FALSE then TRUE
C19_Witness ==
    /\ pc = "toggle_done" /\ loc.bit_no = 6 /\ loc.set_high
    /\ loc.before = 63 /\ chip.config = 127
    /\ loc.writes = 1 /\ ~loc.first /\ loc.second

(* ------------------------------- C20 ---------------------------------- *)
\* bits 7-4 of SETUP_RETR
DelayStep(c) == c.setup_retr \div 16

\* the retry delays the statement accepts
C20_Valid(us) == us % 250 = 0 /\ us \in 250 .. 4000

C20_Step ==
    \A p \in {"configure_tx", "configure_rx"} :
        (StepFrom(p) /\ on) =>
            LET us == config.RETRY_DELAY_US IN
            /\ us = 250 => DelayStep(chip') = 1
            /\ us = 1000 => DelayStep(chip') = 4
            /\ us = 4000 => DelayStep(chip') = 15
            /\ ~C20_Valid(us) =>
                  res' = AssertFailed /\ chip'.setup_retr = chip.setup_retr

\* C20: _shockburst_config programs delay step 1 for retry_delay_us = 250,
\* step 4 for 1000 and step 15 for 4000 into bits 7-4 of SETUP_RETR, and
\* rejects every retry_delay_us that is not a multiple of 250 or lies
\* outside [250, 4000].
C20_RetryDelayConversion == [][C20_Step]_vars

\* the part that holds: 250 and 1000 program steps 1 and 4, and a delay of
\* 4250 or more, or of -250 or less, is rejected
C20_AsCoded ==
    [][\A p \in {"configure_tx", "configure_rx"} :
          (StepFrom(p) /\ on) =>
              LET us == config.RETRY_DELAY_US IN
              /\ us \in {250, 1000} => DelayStep(chip') = us \div 250
              /\ (us >= 4000 \/ us <= -250) =>
                    /\ res' = AssertFailed
                    /\ chip'.setup_retr = chip.setup_retr]_vars

\* retry_delay_us = 4000 was rejected: SETUP_RETR still holds its reset
\* value
C20_Rejected4000 ==
    /\ pc = "idle" /\ op = "configure_tx" /\ res = AssertFailed /\ on
    /\ config.RETRY_DELAY_US = 4000 /\ config.TX_PIPE = PIPE_0
    /\ chip.setup_retr = 3

\* retry_delay_us = 300, not a multiple of 250, was accepted as step 1
C20_Accepted300 ==
    /\ pc = "idle" /\ op = "configure_tx" /\ res = Void /\ on
    /\ config.RETRY_DELAY_US = 300 /\ DelayStep(chip) = 1

(* ------------------------------- C21 ---------------------------------- *)
C21_Step ==
    \A p \in {"configure_tx", "configure_rx"} :
        (StepFrom(p) /\ on /\ Accepts("set_auto_retry_delay")) =>
            LET n == Len(config.TX_PIPE) IN
            /\ (n \in 3 .. 5 /\ Len(config.RX_PIPE) = n) =>
                  res' = Void /\ chip'.setup_aw = n - 2
            /\ n \notin 3 .. 5 =>
                  res' = AssertFailed /\ chip'.setup_aw = chip.setup_aw

\* C21: for every configuration whose TX and RX pipe-0 addresses have a
\* length in {3, 4, 5}, configure_tx and configure_rx run to completion
\* with SETUP_AW programmed to length - 2; address lengths outside
\* {3, 4, 5} are rejected.
C21_AddressWidth == [][C21_Step]_vars

\* the part that holds: configure_rx completes for lengths 3, 4 and 5,
\* configure_tx for length 5, SETUP_AW is length - 2 whenever the length
\* is accepted, and other lengths are rejected with SETUP_AW untouched
C21_AsCoded ==
    [][\A p \in {"configure_tx", "configure_rx"} :
          (StepFrom(p) /\ on /\ Accepts("set_auto_retry_delay")) =>
              LET n == Len(config.TX_PIPE) IN
              /\ n \in 3 .. 5 => chip'.setup_aw = n - 2
              /\ (n \in 3 .. 5 /\ (p = "configure_rx" \/ n = 5)) =>
                    res' = Void
              /\ n \notin 3 .. 5 =>
                    res' = AssertFailed /\ chip'.setup_aw = chip.setup_aw]_vars

\* configure_tx with three-byte addresses: SETUP_AW was programmed, then
\* the operation was abandoned with the chip powered down
C21_ThreeByteAddressFails ==
    /\ pc = "idle" /\ op = "configure_tx" /\ res = AssertFailed /\ on
    /\ Len(config.TX_PIPE) = 3 /\ config.RX_PIPE = config.TX_PIPE
    /\ config.RETRY_DELAY_US = 1000
    /\ chip.setup_aw = 1 /\ ~PwrUp(chip)

(* ------------------------------- C22 ---------------------------------- *)
\* the steps that consist of one status-flag accessor: position, flag
\* tested, value of clear
AccessorSteps ==
    {[at |-> "cb_retry", flag |-> "max_rt", clear |-> TRUE],
     [at |-> "cb_max_rt", flag |-> "max_rt", clear |-> TRUE],
     [at |-> "cb_tx_ds", flag |-> "tx_ds", clear |-> TRUE],
     [at |-> "ms_w_max_rt", flag |-> "max_rt", clear |-> TRUE],
     [at |-> "ms_d_yield", flag |-> "max_rt", clear |-> TRUE],
     [at |-> "readinto", flag |-> "rx_dr", clear |-> TRUE],
     [at |-> "check_msg_sent", flag |-> "tx_ds", clear |-> TRUE],
     [at |-> "any", flag |-> "rx_dr", clear |-> FALSE],
     [at |-> "sx_rx", flag |-> "rx_dr", clear |-> FALSE],
     [at |-> "mx_max_rt", flag |-> "max_rt", clear |-> FALSE],
     [at |-> "mx_tx_ds", flag |-> "tx_ds", clear |-> FALSE],
     [at |-> "mx_rx", flag |-> "rx_dr", clear |-> FALSE]}

\* the accessor of step a is reached: check_master_msg_sent returns
\* before get_clear_tx_irq when MAX_RT is set
AccessorActs(a) ==
    /\ StepFrom(a.at)
    /\ responsive
    /\ a.at = "check_msg_sent" => ~(is_master /\ chip.max_rt)

StatusFlags(c) == [rx_dr |-> c.rx_dr, tx_ds |-> c.tx_ds, max_rt |-> c.max_rt]

C22_Step ==
    \A a \in AccessorSteps :
        AccessorActs(a) =>
            StatusFlags(chip') =
                IF a.clear /\ chip[a.flag]
                THEN [StatusFlags(chip) EXCEPT ![a.flag] = FALSE]
                ELSE StatusFlags(chip)

\* C22: with clear = false, or when its flag is not set, a status-flag
\* accessor changes no status flag; with clear = true and the flag set it
\* clears that flag and leaves the other two status flags unchanged (the
\* chip clears exactly the status bits written as 1).
C22_AccessorClearsOnlyItsFlag == [][C22_Step]_vars

\* what the accessors do: the value written back is the whole status byte
\* read, so with clear = true and the flag set all three flags end clear
C22_AsCoded ==
    [][\A a \in AccessorSteps :
          AccessorActs(a) =>
              StatusFlags(chip') =
                  IF a.clear /\ chip[a.flag]
                  THEN [rx_dr |-> FALSE, tx_ds |-> FALSE, max_rt |-> FALSE]
                  ELSE StatusFlags(chip)]_vars

(* ------------------------ bus transactions ---------------------------- *)
\* The statements of the bus primitives, in source order.  "csn(0)" and
\* "csn(1)" drive chip-select, "spi" is one spi.readinto / spi.write /
\* spi.read, "preset" is self._reg_buf[0] = 0xFF, "check" is
\* "if self._reg_buf[0] == 0xFF: self._on = False; raise OSError(...)".
read_register == <<"csn(0)", "spi", "spi", "csn(1)">>
write_register == <<"csn(0)", "spi", "spi", "csn(1)">>
read_status_register == <<"csn(0)", "spi", "csn(1)">>
read_rx_payload == <<"preset", "csn(0)", "spi", "spi", "csn(1)", "check">>

\* the pulse of tx_write_payload_*: if send: ce(1); sleep_us(10); ce(0)
SendPulse(send) == IF send THEN <<"ce(1)", "sleep_us", "ce(0)">> ELSE <<>>

tx_write_payload_ack(send) ==
    <<"preset", "csn(0)", "spi", "spi", "csn(1)">> \o SendPulse(send)
        \o <<"check">>
tx_write_payload_no_ack(send) ==
    <<"preset", "csn(0)", "spi", "spi", "csn(1)">> \o SendPulse(send)
        \o <<"check">>

\* a faulty variant of rx_write_ack_payload: the scratch byte is checked
\* before chip-select is released
RxWriteAckPayloadMut ==
    <<"preset", "csn(0)", "spi", "spi", "check", "csn(1)">>
rx_write_ack_payload ==
    <<"preset", "csn(0)", "spi", "spi", "csn(1)", "check">>

\* "int" is int(res) on the byte string read
read_rx_payload_length == <<"csn(0)", "spi", "spi", "csn(1)", "int">>
reuse_tx_payload == <<"csn(0)", "spi", "csn(1)">>
FlushTxFifoBus == <<"csn(0)", "spi", "csn(1)">>
FlushRxFifoBus == <<"csn(0)", "spi", "csn(1)">>

\* the primitives: name, statements, what the command does to the chip
Primitives ==
    {[name |-> "read_register", ops |-> read_register, cmd |-> "none"],
     [name |-> "write_register", ops |-> write_register, cmd |-> "none"],
     [name |-> "read_status_register", ops |-> read_status_register,
      cmd |-> "none"],
     [name |-> "read_rx_payload", ops |-> read_rx_payload, cmd |-> "read"],
     [name |-> "rx_write_ack_payload", ops |-> rx_write_ack_payload,
      cmd |-> "write"],
     [name |-> "read_rx_payload_length", ops |-> read_rx_payload_length,
      cmd |-> "none"],
     [name |-> "reuse_tx_payload", ops |-> reuse_tx_payload, cmd |-> "none"],
     [name |-> "flush_tx_fifo", ops |-> FlushTxFifoBus, cmd |-> "flush_tx"],
     [name |-> "flush_rx_fifo", ops |-> FlushRxFifoBus, cmd |-> "flush_rx"]}
    \cup {[name |-> "tx_write_payload_ack", ops |-> tx_write_payload_ack(s),
           cmd |-> "write"] : s \in BOOLEAN}
    \cup {[name |-> "tx_write_payload_no_ack",
           ops |-> tx_write_payload_no_ack(s), cmd |-> "write"] :
          s \in BOOLEAN}

\* the chip once the command of a transaction was taken
Command(cmd, buf, c) ==
    CASE cmd = "write" -> FifoWrite(c, buf)
      [] cmd = "read" -> FifoRead(c)
      [] cmd = "flush_tx" -> flush_tx_fifo(c)
      [] cmd = "flush_rx" -> flush_rx_fifo(c)
      [] OTHER -> c

\* a primitive is called; answered: the scratch byte is not 0xFF
CallBus ==
    /\ pc = "idle"
    /\ \E p \in Primitives, buf \in Payloads :
          /\ op' = p.name
          /\ loc' = [ops |-> p.ops, i |-> 1, cmd |-> p.cmd, buf |-> buf,
                     answered |-> TRUE]
    /\ pc' = "bus"
    /\ res' = NoResult
    /\ UNCHANGED <<config, is_master, on, last_pl_sz, ce, csn, chip,
                   responsive, now, in_buf, obs, g>>

\* the statement the primitive is at
BusAt(s) == pc = "bus" /\ loc.i <= Len(loc.ops) /\ loc.ops[loc.i] = s

\* the primitive goes on with its next statement
BusGoesOn(l) ==
    /\ loc' = [l EXCEPT !.i = l.i + 1]
    /\ UNCHANGED <<config, is_master, on, last_pl_sz, responsive, now, pc,
                   op, res, in_buf, obs, g>>

\* the primitive raises
BusRaises(still_on) ==
    /\ pc' = "idle"
    /\ res' = Raised
    /\ on' = still_on
    /\ UNCHANGED <<config, is_master, last_pl_sz, ce, csn, chip, responsive,
                   now, op, in_buf, loc, obs, g>>

\* self._reg_buf[0] = 0xFF
BusPreset ==
    /\ BusAt("preset")
    /\ BusGoesOn([loc EXCEPT !.answered = FALSE])
    /\ UNCHANGED <<ce, csn, chip>>

\* self.csn(0)
BusCsnLow ==
    /\ BusAt("csn(0)")
    /\ csn' = 0
    /\ BusGoesOn(loc)
    /\ UNCHANGED <<ce, chip>>

\* one transfer; the first one after csn(0) clocks the command byte out and
\* the status byte into the scratch buffer
BusSpi ==
    /\ BusAt("spi")
    /\ BusGoesOn(IF loc.ops[loc.i - 1] = "csn(0)"
                 THEN [loc EXCEPT !.answered = @ \/ responsive]
                 ELSE loc)
    /\ UNCHANGED <<ce, csn, chip>>

\* self.csn(1): the chip takes the command
BusCsnHigh ==
    /\ BusAt("csn(1)")
    /\ csn' = 1
    /\ chip' = Radio(Bus(Command(loc.cmd, loc.buf, chip)), ce)
    /\ BusGoesOn(loc)
    /\ UNCHANGED ce

\* self.ce(1); utime.sleep_us(10); self.ce(0)
BusCe ==
    /\ \E level \in {0, 1} :
          /\ BusAt(IF level = 1 THEN "ce(1)" ELSE "ce(0)")
          /\ ce' = level
          /\ chip' = Radio(chip, level)
    /\ BusGoesOn(loc)
    /\ UNCHANGED csn

BusSleep ==
    /\ BusAt("sleep_us")
    /\ BusGoesOn(loc)
    /\ UNCHANGED <<ce, csn, chip>>

\* if self._reg_buf[0] == 0xFF: self._on = False; raise OSError
BusCheck ==
    /\ BusAt("check")
    /\ IF loc.answered
       THEN BusGoesOn(loc) /\ UNCHANGED <<ce, csn, chip>>
       ELSE BusRaises(FALSE)

\* int(res): the byte read is a decimal digit, or ValueError
BusInt ==
    /\ BusAt("int")
    /\ \/ BusGoesOn(loc) /\ UNCHANGED <<ce, csn, chip>>
       \/ BusRaises(on)

\* the primitive returns
BusReturn ==
    /\ pc = "bus"
    /\ loc.i > Len(loc.ops)
    /\ pc' = "idle"
    /\ res' = Void
    /\ UNCHANGED <<config, is_master, on, last_pl_sz, ce, csn, chip,
                   responsive, now, op, in_buf, loc, obs, g>>

BusNext ==
    \/ CallBus \/ BusPreset \/ BusCsnLow \/ BusSpi \/ BusCsnHigh \/ BusCe
    \/ BusSleep \/ BusCheck \/ BusInt \/ BusReturn \/ BusFault \/ BusRecover

\* the bus primitives, statement by statement, on a bus that can fail
SpecBus == Init /\ [][BusNext]_vars

(* ------------------------------- C23 ---------------------------------- *)
\* chip-select was driven low by this primitive and only transfers followed
InTransaction ==
    /\ pc = "bus"
    /\ \E j \in 1 .. loc.i - 1 :
          /\ loc.ops[j] = "csn(0)"
          /\ loc.i <= Len(loc.ops)
          /\ \A k \in j + 1 .. loc.i - 1 : loc.ops[k] = "spi"

\* C23: chip-select is never left asserted: it is high whenever no bus
\* primitive is running (between the transactions of an operation, where
\* the operations yield, and on return or error exit), and it is low only
\* inside one transaction, between csn(0) and csn(1), with nothing but
\* transfers in between.
C23_ChipSelectReleased ==
    /\ pc # "bus" => csn = 1
    /\ csn = 0 => InTransaction
    /\ pc = "bus" /\ loc.i > Len(loc.ops) => csn = 1

\* a payload primitive left by its error exit on a silent bus
C23_Witness ==
    /\ pc = "idle" /\ res = Raised /\ ~on /\ csn = 1
    /\ op = "rx_write_ack_payload"
    /\ loc.i = Len(loc.ops)

(* ------------------------------- C24 ---------------------------------- *)
\* the suspension points of master_exchange, master_send and clear_tx_buf
InitiatorYieldPcs == {"mx_yield", "ms_w_yield", "ms_d_yield", "cb_yield"}

\* C24: when an initiator's master_exchange, master_send or clear_tx_buf is
\* abandoned at one of its suspension points, chip-enable is low.
C24_CeLowWhenAbandoned ==
    [][(is_master /\ pc \in InitiatorYieldPcs /\ res' = Cancelled) =>
          ce = 0]_vars

\* what the code does: chip-enable is high at the suspension point of the
\* drain loop of master_send (line 852) and of the retry pulse of
\* clear_tx_buf (line 883)
C24_AsCoded == pc \in {"ms_d_yield", "cb_yield"} => ce = 1

\* master_send abandoned while it drains the TX FIFO: chip-enable stays high
C24_AbandonedWithCeHigh ==
    /\ is_master /\ pc = "idle" /\ res = Cancelled /\ ce = 1
    /\ op = "master_send"

(* ------------------------- retry configuration ------------------------ *)
\* Step 4 of _shockburst_config (lines 692-693): set_auto_retry_delay
\* followed by set_auto_retry_count, for every pair of arguments, on the
\* SETUP_RETR value the calls before it have left.
RetryArgs == -1 .. 16

CallRetryConfig ==
    \E delay_lv \in RetryArgs, retries \in RetryArgs :
        Enter("retry_config", "retr_delay",
              [delay_lv |-> delay_lv, retries |-> retries,
               before |-> chip.setup_retr])

\* the setter at position p raises AssertionError or leaves chip c
RetrStep(p, accepted, c, q) ==
    /\ pc = p
    /\ pc' = IF accepted THEN q ELSE "idle"
    /\ res' = IF ~accepted THEN AssertFailed
              ELSE IF q = "idle" THEN Void ELSE res
    /\ chip' = IF accepted THEN Bus(c) ELSE chip
    /\ loc' = [loc EXCEPT !.before = chip.setup_retr]
    /\ g' = Used(g)
    /\ UNCHANGED <<on, last_pl_sz, ce, now, in_buf, obs>>
    /\ Fixed

\* set_auto_retry_delay(delay_lv): assert 0 <= delay_lv <= 15
RetrDelay ==
    RetrStep("retr_delay", loc.delay_lv \in 0 .. 15,
             set_auto_retry_delay(chip, loc.delay_lv), "retr_count")

\* set_auto_retry_count(retries): assert 0 <= retries <= 15
RetrCount ==
    RetrStep("retr_count", loc.retries \in 0 .. 15,
             set_auto_retry_count(chip, loc.retries), "idle")

RetryNext == CallRetryConfig \/ RetrDelay \/ RetrCount

SpecRetry == Init /\ [][RetryNext]_vars

(* ------------------------------- C25 ---------------------------------- *)
C25_Step ==
    LET old == chip.setup_retr
        new == chip'.setup_retr
    IN /\ (StepFrom("retr_count") /\ loc.retries \in 0 .. 15) =>
             /\ res' = Void
             /\ new = BitwiseOr(BitwiseAnd(old, 240), loc.retries)
             /\ new % 16 = loc.retries
             /\ new \div 16 = old \div 16
             /\ new = 16 * loc.delay_lv + loc.retries
       /\ (StepFrom("retr_delay") /\ loc.delay_lv \in 0 .. 15) =>
             /\ new \div 16 = loc.delay_lv
             /\ new % 16 = old % 16

\* C25: for every prior SETUP_RETR value and every retries in 0..15,
\* set_auto_retry_count leaves (old & 0xF0) | retries: the count nibble is
\* the new count with no stale bits and the delay nibble is unchanged;
\* set_auto_retry_delay changes only the upper nibble; after both,
\* SETUP_RETR = (delay_step << 4) | retry_count.
C25_RetryCountMasked == [][C25_Step]_vars

\* a count of 2 written over an old count of 15: no stale bit is left
C25_Witness ==
    /\ pc = "idle" /\ op = "retry_config" /\ res = Void
    /\ loc.before % 16 = 15 /\ loc.retries = 2
    /\ chip.setup_retr = 16 * loc.delay_lv + 2

(* ------------------------------- C26 ---------------------------------- *)
\* C26: after any sequence of power_on, power_off, configure, configure_tx
\* and configure_rx calls, including calls that end in a configuration
\* error, whenever the driver reports is_on the power-up bit of CONFIG is
\* set.
C26_OnImpliesPoweredUp == (pc = "idle" /\ on) => PwrUp(chip)

\* configure_rx rejected a retry delay of 4250 us: the driver reports on,
\* the chip was powered down for the reconfiguration and stays so
C26_OnButPoweredDown ==
    /\ pc = "idle" /\ op = "configure_rx" /\ res = AssertFailed
    /\ config.RETRY_DELAY_US = 4250
    /\ on /\ ~PwrUp(chip)

(* ------------------------------- C27 ---------------------------------- *)
\* The payload queued by a call is the last of the TX FIFO; payloads leave
\* the FIFO from the head, one per acknowledged packet.  So the packet
\* of this call was sent only once the FIFO is empty, and it is the one
\* that exhausted its retries only when it is alone in the FIFO.
C27_Step ==
    /\ (StepFrom("mx_sent") \/ StepFrom("mx_recv")) => chip.tx = <<>>
    /\ (StepFrom("mx_max_rt") /\ pc' = "mx_fail") => Len(chip.tx) = 1

\* C27: master_exchange reports the fate of the packet queued by that same
\* call: SEND_FAIL only if that packet exhausted its retries,
\* MSG_SENT_NO_RESP or MSG_RECV only if that packet was sent, never on a
\* MAX_RT or TX_DS flag left set by an earlier packet.
C27_ReportsOwnPacket == [][C27_Step]_vars

\* master_exchange returned MSG_SENT_NO_RESP with its payload still queued
C27_ReportedSentButQueued ==
    /\ pc = "idle" /\ op = "master_exchange"
    /\ res = Status(MSG_SENT_NO_RESP)
    /\ chip.tx # <<>> /\ ~chip.air /\ ce = 0

(* ------------------------------- C28 ---------------------------------- *)
\* C28: no received payload is stranded by slave_exchange: when it polls
\* with the RX FIFO non-empty it goes on to read the head payload (and
\* return MSG_RECV) without waiting for a further packet.
C28_NoStrandedPayload ==
    [][(StepFrom("sx_rx") /\ responsive /\ chip.rx # <<>>) =>
          pc' = "sx_read"]_vars

\* what the code does: the loop is left exactly when RX_DR is read set,
\* whatever the RX FIFO holds
C28_AsCoded ==
    [][(StepFrom("sx_rx") /\ responsive) =>
          pc' = (IF chip.rx_dr THEN "sx_read" ELSE "sx_yield")]_vars

\* slave_exchange waits for a packet with a payload in the RX FIFO: two
\* packets had arrived before the previous call cleared the flags
C28_Stranded ==
    /\ pc = "sx_yield" /\ op = "slave_exchange" /\ ~is_master /\ on
    /\ chip.rx # <<>> /\ ~chip.rx_dr
    /\ Listening(chip, ce)

=============================================================================
